---- MODULE Spec2Model ----
(***************************************************************************)
(* A model of capucho-cli: the version syncer (syncVersion), the layered   *)
(* configuration resolver (ConfigManager), the remote-config cache         *)
(* (CloudConfigService) and the OTA / native deploy pipelines.             *)
(***************************************************************************)
EXTENDS Integers, Sequences, FiniteSets, TLC

(***************************************************************************)
(* Bounds of the model.                                                    *)
(***************************************************************************)
\* largest counter value a bump may produce
MaxCode == 3
\* largest counter value found in a counters file at the start
InitMaxCode == 2
\* number of fetchProjectConfig calls followed
MaxCalls == 3
\* largest number of entries in a scanned directory tree
MaxEntries == 2
\* largest modification time of an entry
MaxTime == 2

(***************************************************************************)
(* The project root: package.json, version-code.json, the env files.       *)
(***************************************************************************)
VARIABLES pkgExists, pkgVersion, codesFile, envFile

fsVars == <<pkgExists, pkgVersion, codesFile, envFile>>

\* the last finished sequential syncVersion call, and the one before it
VARIABLES svLast, svPrev

\* two interleaved syncVersion calls: each call's position and locals, the
\* order of the reads and writes of the counters file, the file at the start
VARIABLES svPc, svLoc, svLog, svOrig

raceVars == <<svPc, svLoc, svLog, svOrig>>

\* the global config file (~/.capucho/config.json), the project config file
\* (<root>/.capucho/project.json) and the last loadConfig call
VARIABLES globalCfg, projectCfg, cfgLast

cfgFiles == <<globalCfg, projectCfg>>

\* the remote-config cache file (<root>/.capucho/cloud-cache.json), the number
\* of requests sent so far, and the fetchProjectConfig calls made, oldest first
VARIABLES cacheFile, netCalls, fetchHist

fetchVars == <<cacheFile, netCalls, fetchHist>>

\* one run of a deploy command: which command and with which job flags; the
\* operation the run is at and whether it is suspended on it; the operations
\* started and not yet settled; the operations begun and ended, in order; the
\* external commands launched; the located artifact; the operations that
\* failed; what the run reported and how it ended; the response to the upload
\* request and what uploadFile made of it; the diagnostic blocks of the deploy
\* log file (capucho-deploy.log), oldest first
VARIABLES dpKind, dpJob, dpPc, dpWait, dpInflight, dpLog, dpCmds, dpArtifact,
          dpFailedOps, dpFinish, dpFail, dpExit, dpUploadOk, dpUpload, dpLogFile

dpCtl == <<dpPc, dpWait, dpInflight, dpLog, dpCmds>>
dpOut == <<dpArtifact, dpFailedOps, dpFinish, dpFail, dpExit, dpUploadOk, dpUpload, dpLogFile>>
dpVars == <<dpKind, dpJob, dpCtl, dpOut>>

\* a directory given to findLatestZip or findApk, with the entries of its tree
\* and of its neighbourhood in the order readdirSync lists them, and the last
\* call of one of the two functions
VARIABLES fdDir, fdLast

findVars == <<fdDir, fdLast>>

\* the last call of setGlobalConfig or setProjectConfig, with the two config
\* files as they were before it
VARIABLES setLast

\* two interleaved calls of the setters: each call's position and locals, the
\* order of the reads and writes, and the two config files at the start
VARIABLES scPc, scLoc, scLog, scOrig

setRaceVars == <<scPc, scLoc, scLog, scOrig>>

vars == <<fsVars, svLast, svPrev, raceVars, cfgFiles, cfgLast, fetchVars, dpVars, findVars, setLast, setRaceVars>>

\* what a sequential syncVersion call, an interleaved one, a loadConfig call,
\* a fetchProjectConfig call and a deploy run leave alone
syncRest == <<raceVars, cfgFiles, cfgLast, fetchVars, dpVars, findVars, setLast, setRaceVars>>
raceRest == <<svLast, svPrev, svOrig, cfgFiles, cfgLast, fetchVars, dpVars, findVars, setLast, setRaceVars>>
cfgRest == <<fsVars, svLast, svPrev, raceVars, fetchVars, dpVars, findVars, setLast, setRaceVars>>
fetchRest == <<fsVars, svLast, svPrev, raceVars, cfgFiles, cfgLast, dpVars, findVars, setLast, setRaceVars>>
dpRest == <<svPrev, raceVars, cfgFiles, cfgLast, fetchVars, findVars, setLast, setRaceVars>>
findRest == <<fsVars, svLast, svPrev, raceVars, cfgFiles, cfgLast, fetchVars, dpVars, setLast, setRaceVars>>
setRest == <<fsVars, svLast, svPrev, raceVars, cfgLast, fetchVars, dpVars, findVars, setRaceVars>>
setRaceRest == <<fsVars, svLast, svPrev, raceVars, cfgLast, fetchVars, dpVars, findVars, setLast>>

\* the environments syncVersion knows (the keys of envFiles)
KnownEnvs == {"dev", "prod", "staging"}

\* environments a caller may pass: the known ones and one unknown
EnvArgs == KnownEnvs \cup {"qa"}

\* let versionCodes = {dev: 1, prod: 1, staging: 1}
DefaultCodes == [e \in KnownEnvs |-> 1]

\* an object with no keys
EmptyObj == [e \in {} |-> 0]

\* no version-code.json on disk
NoCodesFile == [exists |-> FALSE, codes |-> EmptyObj]

\* a version-code.json holding the object c
CodesFileOf(c) == [exists |-> TRUE, codes |-> c]

\* one line "KEY=value" of an env file; the value is a bare token (raw), the
\* package version (ver), a counter (num) or the text "undefined" (undef)
Line(key, kind, n) == [key |-> key, kind |-> kind, n |-> n]

\* the initial text of each environment's variable file
EnvTemplate(e) ==
  CASE e = "dev" -> << Line("VITE_APP_VERSION", "raw", 0), Line("VERSION_CODE", "raw", 0),
                       Line("BUILD_NUMBER", "raw", 0), Line("VITE_API", "raw", 7),
                       Line("VITE_VERSION_CODE", "raw", 3) >>
    [] e = "prod" -> << Line("VITE_API", "raw", 7), Line("VERSION_CODE", "raw", 0),
                        Line("VERSION_CODE", "raw", 5) >>
    [] OTHER -> << Line("VITE_APP_VERSION", "raw", 0), Line("VITE_API", "raw", 7) >>

\* the object o with o[k] = v assigned (the key is added when absent)
SetKey(o, k, v) == [x \in DOMAIN o \cup {k} |-> IF x = k THEN v ELSE o[x]]

(***************************************************************************)
(* syncVersion, step by step.                                              *)
(***************************************************************************)
\* config.ts 125-130: the counter map the call works on
SvReadCodes(cf) == IF cf.exists THEN cf.codes ELSE DefaultCodes

\* a call that does not look for the env file
SvThrows_NoFileCheck(pkg, ef, env) ==
  \/ ~pkg
  \/ env \notin KnownEnvs

\* config.ts 117-120, 138-141: the call throws before writing anything
SvThrows(pkg, ef, env) ==
  \/ ~pkg
  \/ env \notin KnownEnvs
  \/ ~ef[env].exists

\* a bump that increments every environment of the map
SvBump_All(codes, env, bump) ==
  IF bump THEN [x \in DOMAIN codes \cup {env} |-> IF x \in DOMAIN codes THEN codes[x] + 1 ELSE 1]
  ELSE codes

\* a bump made whatever the flag says
SvBump_Always(codes, env, bump) ==
  SetKey(codes, env, (IF env \in DOMAIN codes /\ codes[env] # 0 THEN codes[env] ELSE 0) + 1)

\* a bump that restarts the counter
SvBump_Reset(codes, env, bump) ==
  IF bump THEN SetKey(codes, env, 1) ELSE codes

\* config.ts 143-145: versionCodes[env] = (versionCodes[env] || 0) + 1
SvBump(codes, env, bump) ==
  IF bump
  THEN SetKey(codes, env, (IF env \in DOMAIN codes /\ codes[env] # 0 THEN codes[env] ELSE 0) + 1)
  ELSE codes

\* config.ts 148: const versionCode = versionCodes[env] (undefined when absent)
SvVersionCode(codes, env) ==
  IF env \in DOMAIN codes THEN [def |-> TRUE, n |-> codes[env]] ELSE [def |-> FALSE, n |-> 0]

\* the text "VAR=" occurs in a line whose key ends with VAR
KeyEndsWith(key, var) ==
  \/ key = var
  \/ key = "VITE_VERSION_CODE" /\ var = "VERSION_CODE"

\* content.replaceAll(/VAR=.*/g, `VAR=${value}`) on one line
ReplaceLine(l, var, kind, n) ==
  IF KeyEndsWith(l.key, var) THEN [l EXCEPT !.kind = kind, !.n = n] ELSE l

\* config.ts 150-158: the three substitutions, in order
SvRewrite(content, version, vc) ==
  LET ck == IF vc.def THEN "num" ELSE "undef"
  IN  [i \in DOMAIN content |->
         ReplaceLine(ReplaceLine(ReplaceLine(content[i],
             "VITE_APP_VERSION", "ver", version),
             "VERSION_CODE", ck, vc.n),
             "BUILD_NUMBER", ck, vc.n)]

\* config.ts 160: the env file after the call
SvEnvFileAfter(ef, env, version, vc) ==
  [ef EXCEPT ![env].content = SvRewrite(ef[env].content, version, vc)]

\* a persist step that writes the targeted environment's next counter
SvPersist_Next(cf, codes, env) ==
  CodesFileOf([e \in DOMAIN codes |-> IF e = env THEN codes[e] + 1 ELSE codes[e]])

\* the persist step that writes only the targeted environment's entry
SvPersist_Merge(cf, codes, env) ==
  IF cf.exists /\ env \in DOMAIN codes
  THEN CodesFileOf(SetKey(cf.codes, env, codes[env]))
  ELSE CodesFileOf(codes)

\* a persist step that rewrites an existing counters file only
SvPersist_ExistingOnly(cf, codes, env) == IF cf.exists THEN CodesFileOf(codes) ELSE cf

\* config.ts 161: fs.writeJson(versionCodePath, versionCodes): the whole map
SvPersist(cf, codes, env) == CodesFileOf(codes)

\* config.ts 163: return {version, versionCode}
SvReturn(version, vc) == [version |-> version, versionCode |-> vc]

(***************************************************************************)
(* Sequential calls of syncVersion: one call runs to completion.           *)
(***************************************************************************)
\* no call made yet
NoCall == [made |-> FALSE, env |-> "dev", bump |-> FALSE, threw |-> FALSE,
           before |-> NoCodesFile, ret |-> SvReturn(0, [def |-> FALSE, n |-> 0])]

\* a record of a finished call
CallRec(env, bump, threw, before, ret) ==
  [made |-> TRUE, env |-> env, bump |-> bump, threw |-> threw, before |-> before, ret |-> ret]

\* a call that bumps and persists the counters before it looks for the env file
SyncVersion_PersistBeforeCheck(env, bump) ==
  LET codes == SvBump(SvReadCodes(codesFile), env, bump)
      vc == SvVersionCode(codes, env)
  IN  /\ \A e \in DOMAIN codes : codes[e] <= MaxCode
      /\ svPrev' = svLast
      /\ IF SvThrows(pkgExists, envFile, env)
         THEN /\ svLast' = CallRec(env, bump, TRUE, codesFile, NoCall.ret)
              /\ codesFile' = IF pkgExists THEN SvPersist(codesFile, codes, env) ELSE codesFile
              /\ UNCHANGED <<pkgExists, pkgVersion, envFile, syncRest>>
         ELSE /\ envFile' = SvEnvFileAfter(envFile, env, pkgVersion, vc)
              /\ codesFile' = SvPersist(codesFile, codes, env)
              /\ svLast' = CallRec(env, bump, FALSE, codesFile, SvReturn(pkgVersion, vc))
              /\ UNCHANGED <<pkgExists, pkgVersion, syncRest>>

\* config.ts 116-164: syncVersion(root, env, bump), the whole call
SyncVersion(env, bump) ==
  IF SvThrows(pkgExists, envFile, env)
  THEN /\ svLast' = CallRec(env, bump, TRUE, codesFile, NoCall.ret)
       /\ svPrev' = svLast
       /\ UNCHANGED <<fsVars, syncRest>>
  ELSE LET codes == SvBump(SvReadCodes(codesFile), env, bump)
           vc == SvVersionCode(codes, env)
       IN  /\ \A e \in DOMAIN codes : codes[e] <= MaxCode
           /\ envFile' = SvEnvFileAfter(envFile, env, pkgVersion, vc)
           /\ codesFile' = SvPersist(codesFile, codes, env)
           /\ svLast' = CallRec(env, bump, FALSE, codesFile, SvReturn(pkgVersion, vc))
           /\ svPrev' = svLast
           /\ UNCHANGED <<pkgExists, pkgVersion, syncRest>>

\* counters files a project root may hold at the start: none, or an object
\* with a counter for some of the environments
InitCodesFiles ==
  {NoCodesFile} \cup
  {CodesFileOf(c) : c \in UNION {[S -> 1..InitMaxCode] : S \in SUBSET KnownEnvs}}

\* env files at the start: each present (with its template) or missing
InitEnvFiles ==
  {[e \in KnownEnvs |-> [exists |-> e \in S, content |-> IF e \in S THEN EnvTemplate(e) ELSE << >>]]
     : S \in SUBSET KnownEnvs}

(***************************************************************************)
(* ConfigManager: the layered configuration.                               *)
(***************************************************************************)
\* a JSON value of a config file or of the explicit overrides: a string, a
\* nested object (a set of <<field, string>> pairs) or, for an override,
\* the JavaScript value undefined
StrVal(x) == [kind |-> "str", str |-> x, obj |-> {}]
ObjVal(o) == [kind |-> "obj", str |-> "", obj |-> o]
Undefined == [kind |-> "undef", str |-> "", obj |-> {}]

\* the keys the model's config layers may hold
CfgKeys == {"endpoint", "apiKey", "environments", "VITE_UPDATE_API_URL"}

\* the values a config file may hold for a key
CfgValuesOf(k) ==
  IF k = "environments"
  THEN {ObjVal({<<"dev", "beta">>}), ObjVal({<<"prod", "stable">>, <<"dev", "nightly">>})}
  ELSE {StrVal(""), StrVal("u")}

\* the objects over the keys K
CfgMaps(K) ==
  UNION {{m \in [S -> UNION {CfgValuesOf(k) : k \in S}] : \A k \in S : m[k] \in CfgValuesOf(k)}
           : S \in SUBSET K}

\* a config file: absent, unparsable, or holding an object
NoCfgFile == [state |-> "absent", map |-> EmptyObj]
CorruptCfgFile == [state |-> "corrupt", map |-> EmptyObj]
CfgFileOf(m) == [state |-> "ok", map |-> m]

\* the config files over the keys K
CfgFilesOver(K) == {NoCfgFile, CorruptCfgFile} \cup {CfgFileOf(m) : m \in CfgMaps(K)}

\* config.ts 100-110: readJsonFile: {} for an absent or unparsable file
ReadJsonFile(f) == IF f.state = "ok" THEN f.map ELSE EmptyObj

\* a readJsonFile that lets the parse error of fs.readJson escape
ReadJsonFileThrows_OnCorrupt(f) == f.state = "corrupt"

\* config.ts 101-107: readJsonFile raises: never; fs.pathExists resolves to
\* false on any error and the error of fs.readJson is caught
ReadJsonFileThrows(f) == FALSE

\* a spread that merges two nested objects field by field
Spread_Deep(a, b) ==
  [k \in DOMAIN a \cup DOMAIN b |->
     IF k \in DOMAIN b
     THEN IF k \in DOMAIN a /\ a[k].kind = "obj" /\ b[k].kind = "obj"
          THEN [kind |-> "obj", str |-> "",
                obj |-> b[k].obj \cup {x \in a[k].obj : \A y \in b[k].obj : y[1] # x[1]}]
          ELSE b[k]
     ELSE a[k]]

\* {...a, ...b}: every key of either, b's value where b has the key
Spread(a, b) == [k \in DOMAIN a \cup DOMAIN b |-> IF k \in DOMAIN b THEN b[k] ELSE a[k]]

\* a merge in which the project file beats the flags
LoadConfig_ProjectWins(g, p, flags) ==
  Spread(Spread(ReadJsonFile(g), flags), ReadJsonFile(p))

\* config.ts 74-83: loadConfig(flags): {...globalConfig, ...projectConfig, ...flags}
LoadConfig(g, p, flags) ==
  Spread(Spread(ReadJsonFile(g), ReadJsonFile(p)), flags)

\* config.<key>: undefined for a key the object lacks
Get(c, k) == IF k \in DOMAIN c THEN c[k] ELSE Undefined

\* JavaScript truthiness of a value
Truthy(v) == v.kind = "obj" \/ (v.kind = "str" /\ v.str # "")

\* a || b
JsOr(a, b) == IF Truthy(a) THEN a ELSE b

\* no loadConfig call made yet
NoLoad == [made |-> FALSE, flags |-> EmptyObj, threw |-> FALSE, result |-> EmptyObj]

\* the keys of the model's explicit overrides
FlagKeys == {"endpoint", "environments"}

\* the explicit overrides a caller may pass: a flag may also be present with
\* the value undefined
FlagMaps ==
  UNION {{m \in [S -> UNION {CfgValuesOf(k) : k \in S} \cup {Undefined}] :
            \A k \in S : m[k] \in CfgValuesOf(k) \cup {Undefined}}
           : S \in SUBSET FlagKeys}

\* a call of loadConfig(flags): it raises when one of its two reads raises
LoadConfigCall(flags) ==
  /\ cfgLast' =
       IF ReadJsonFileThrows(globalCfg) \/ ReadJsonFileThrows(projectCfg)
       THEN [made |-> TRUE, flags |-> flags, threw |-> TRUE, result |-> EmptyObj]
       ELSE [made |-> TRUE, flags |-> flags, threw |-> FALSE,
             result |-> LoadConfig(globalCfg, projectCfg, flags)]
  /\ UNCHANGED <<cfgFiles, cfgRest>>

(***************************************************************************)
(* CloudConfigService: the remote project config and its on-disk cache.    *)
(***************************************************************************)
\* the project configs the server may send
Payloads == {"P1", "P2"}

\* the cache file: absent, unreadable, or holding a payload
NoCache == [state |-> "absent", data |-> ""]
CorruptCache == [state |-> "corrupt", data |-> ""]
CacheOf(d) == [state |-> "ok", data |-> d]

\* what axios.get may produce under validateStatus: () => true: a response of
\* any status, whose body may be empty, or a transport-level exception
NoResponse == [kind |-> "none", status |-> 0, body |-> ""]
TransportError == [kind |-> "transport", status |-> 0, body |-> ""]
HttpResponse(st, b) == [kind |-> "http", status |-> st, body |-> b]
Responses ==
  {HttpResponse(200, "P1"), HttpResponse(200, "P2"), HttpResponse(200, ""),
   HttpResponse(500, "P1"), TransportError}

\* how fs.outputJson may end: written; failed before the file was opened;
\* failed after the file was truncated
WriteOutcomes == {"written", "failed", "truncated"}

\* cloud-config.ts 74-83: loadCache: the file's content, null when the file is
\* absent or unreadable
LoadCache(c) == IF c.state = "ok" THEN c.data ELSE "null"

\* a saveCache that keeps an existing cache file
SaveCache_KeepOld(c, d, wr) ==
  IF c.state = "ok" THEN c
  ELSE CASE wr = "written" -> CacheOf(d) [] wr = "truncated" -> CorruptCache [] OTHER -> c

\* cloud-config.ts 66-72: saveCache: the write is attempted, its error ignored
SaveCache(c, d, wr) ==
  CASE wr = "written" -> CacheOf(d)
    [] wr = "truncated" -> CorruptCache
    [] OTHER -> c

\* a saveCache that lets the error of a failed write out
SaveCacheThrows_OnFailure(wr) == wr # "written"

\* cloud-config.ts 66-72: saveCache catches the error of its write
SaveCacheThrows(wr) == FALSE

\* cloud-config.ts 39: config.endpoint || config.VITE_UPDATE_API_URL
FetchEndpoint(cfg) == JsOr(Get(cfg, "endpoint"), Get(cfg, "VITE_UPDATE_API_URL"))

\* a credential test that forgets the API key
FetchSendsRequest_EndpointOnly(endpoint, apiKey) == Truthy(endpoint)

\* cloud-config.ts 42-44: the request is sent unless !endpoint || !apiKey
FetchSendsRequest(endpoint, apiKey) == Truthy(endpoint) /\ Truthy(apiKey)

\* a test of the response that forgets the status
FetchAccepts_AnyStatus(resp) == resp.kind = "http" /\ resp.body # ""

\* cloud-config.ts 54: response.status === 200 && response.data
FetchAccepts(resp) == resp.kind = "http" /\ resp.status = 200 /\ resp.body # ""

\* a fallback that gives up instead of reading the cache
FetchFallback_Null(c) == "null"

\* cloud-config.ts 43, 63: return this.loadCache()
FetchFallback(c) == LoadCache(c)

\* the record of one call
FetchRec(endpoint, apiKey, resp, wr, before, after, netBefore, netAfter, ret) ==
  [endpoint |-> endpoint, apiKey |-> apiKey, resp |-> resp, wr |-> wr,
   cacheBefore |-> before, cacheAfter |-> after,
   netBefore |-> netBefore, netAfter |-> netAfter, ret |-> ret]

\* cloud-config.ts 37-64: fetchProjectConfig(); resp is what the request
\* produces and wr how the cache write ends, where the call gets that far;
\* the request and saveCache run inside one try whose catch falls through to
\* the cache, so every path ends in a return
FetchProjectConfig(resp, wr) ==
  LET cfg == LoadConfig(globalCfg, projectCfg, EmptyObj)
      endpoint == FetchEndpoint(cfg)
      apiKey == Get(cfg, "apiKey")
  IN  /\ Len(fetchHist) < MaxCalls
      /\ IF ~FetchSendsRequest(endpoint, apiKey)
         THEN /\ resp = NoResponse /\ wr = "none"
              /\ UNCHANGED <<cacheFile, netCalls>>
              /\ fetchHist' = Append(fetchHist,
                   FetchRec(endpoint, apiKey, resp, wr, cacheFile, cacheFile,
                            netCalls, netCalls, FetchFallback(cacheFile)))
         ELSE /\ resp \in Responses
              /\ netCalls' = netCalls + 1
              /\ IF FetchAccepts(resp)
                 THEN /\ wr \in WriteOutcomes
                      /\ cacheFile' = SaveCache(cacheFile, resp.body, wr)
                      /\ fetchHist' = Append(fetchHist,
                           FetchRec(endpoint, apiKey, resp, wr, cacheFile, cacheFile',
                                    netCalls, netCalls',
                                    IF SaveCacheThrows(wr) THEN FetchFallback(cacheFile')
                                    ELSE resp.body))
                 ELSE /\ wr = "none"
                      /\ UNCHANGED cacheFile
                      /\ fetchHist' = Append(fetchHist,
                           FetchRec(endpoint, apiKey, resp, wr, cacheFile, cacheFile,
                                    netCalls, netCalls', FetchFallback(cacheFile)))
      /\ UNCHANGED fetchRest

(***************************************************************************)
(* uploadFile: the multipart POST of an artifact and the result it makes.  *)
(***************************************************************************)
\* response bodies: a JSON object carrying success: true, a JSON error
\* object, and an empty body
BodySuccess == "{success:true}"
BodyError == "{error:rejected}"
Bodies == {BodySuccess, BodyError, ""}

\* what axios.post may produce: a response of some status, or an exception
\* without response whose message may be empty
UpHttp(st, b) == [kind |-> "http", status |-> st, body |-> b, message |-> ""]
UpTransport(m) == [kind |-> "transport", status |-> 0, body |-> "", message |-> m]
NoUploadResponse == [kind |-> "none", status |-> 0, body |-> "", message |-> ""]
UploadResponses ==
  {UpHttp(st, b) : st \in {200, 404, 500}, b \in Bodies} \cup
  {UpTransport(m) : m \in {"connect ECONNREFUSED", ""}}

\* axios resolves for a 2xx status (its default validateStatus)
Is2xx(resp) == resp.kind = "http" /\ resp.status >= 200 /\ resp.status < 300

\* part_001 168: the message of the exception axios.post rejects with
ErrorMessage(resp) ==
  IF resp.kind = "http" THEN "Request failed with status code" ELSE resp.message

\* the result object uploadFile returns (threw: it raised instead)
UploadResult(threw, data, status, success) ==
  [threw |-> threw, data |-> data, status |-> status, success |-> success]

\* no uploadFile call
NoUpload == [called |-> FALSE, resp |-> NoUploadResponse, result |-> UploadResult(FALSE, "", 0, FALSE)]

\* an uploadFile that lets an exception without response escape
UploadFile_Rethrow(resp) ==
  IF Is2xx(resp) THEN UploadResult(FALSE, resp.body, resp.status, TRUE)
  ELSE IF resp.kind = "http" THEN UploadResult(FALSE, resp.body, resp.status, FALSE)
  ELSE UploadResult(TRUE, "", 0, FALSE)

\* part_001 160-176: uploadFile's try/catch around axios.post
\* data: axiosError.response?.data || errorMessage; status: response?.status || 0
UploadFile(resp) ==
  IF Is2xx(resp)
  THEN UploadResult(FALSE, resp.body, resp.status, TRUE)
  ELSE UploadResult(FALSE,
         IF resp.kind = "http" /\ resp.body # "" THEN resp.body ELSE ErrorMessage(resp),
         IF resp.kind = "http" /\ resp.status # 0 THEN resp.status ELSE 0,
         FALSE)

\* result.data && result.data.success: the body is an object with a truthy
\* success field
DataSuccess(data) == data = BodySuccess

\* ota.ts 277, part_006 259: result.success || (result.data && result.data.success)
UploadAccepted(result) == result.success \/ DataSuccess(result.data)

(***************************************************************************)
(* setGlobalConfig and setProjectConfig.                                   *)
(***************************************************************************)
\* the function f with key k mapped to v
WithKey(f, k, v) == [x \in DOMAIN f \cup {k} |-> IF x = k THEN v ELSE f[x]]

\* the function f without key k
WithoutKey(f, k) == [x \in DOMAIN f \ {k} |-> f[x]]

\* config.ts 88-89: config[key] = value, then the object as outputJson
\* serialises it: JSON.stringify leaves out a key whose value is undefined
AssignKey(config, key, value) ==
  IF value = Undefined THEN WithoutKey(config, key) ELSE WithKey(config, key, value)

\* a set that writes the given key alone
SetConfigKey_Replace(f, key, value) ==
  CfgFileOf(IF value = Undefined THEN EmptyObj ELSE WithKey(EmptyObj, key, value))

\* a set that leaves an unparsable file alone
SetConfigKey_KeepCorrupt(f, key, value) ==
  IF f.state = "corrupt" THEN f ELSE CfgFileOf(AssignKey(ReadJsonFile(f), key, value))

\* config.ts 85-97: config = readJsonFile(path); config[key] = value;
\* outputJson(path, config): the file is read as {} when absent or
\* unparsable, and JSON.stringify leaves out a key whose value is undefined
SetConfigKey(f, key, value) == CfgFileOf(AssignKey(ReadJsonFile(f), key, value))

\* the keys and values given to the two setters
SetKeys == {"endpoint", "apiKey", "environments"}
SetValuesOf(k) == CfgValuesOf(k) \cup {Undefined}

\* the record of a call: what it was given, whether it raised, and the two
\* files before it
SetRec(fn, key, value, threw, g, p) ==
  [fn |-> fn, key |-> key, value |-> value, threw |-> threw,
   globalBefore |-> g, projectBefore |-> p]

NoSet == SetRec("none", "", Undefined, FALSE, NoCfgFile, NoCfgFile)

\* config.ts 85-90: the call raises, before writing, when its read raises
SetGlobalConfig(key, value) ==
  /\ globalCfg' = IF ReadJsonFileThrows(globalCfg) THEN globalCfg
                  ELSE SetConfigKey(globalCfg, key, value)
  /\ setLast' = SetRec("setGlobalConfig", key, value, ReadJsonFileThrows(globalCfg),
                       globalCfg, projectCfg)
  /\ UNCHANGED <<projectCfg, setRest>>

\* config.ts 92-97: the call raises, before writing, when its read raises
SetProjectConfig(key, value) ==
  /\ projectCfg' = IF ReadJsonFileThrows(projectCfg) THEN projectCfg
                   ELSE SetConfigKey(projectCfg, key, value)
  /\ setLast' = SetRec("setProjectConfig", key, value, ReadJsonFileThrows(projectCfg),
                       globalCfg, projectCfg)
  /\ UNCHANGED <<globalCfg, setRest>>

\* the processes calling a setter, and the locals of a call not started
SetProcs == {1, 2}
NoSetLocals == [fn |-> "none", key |-> "", value |-> Undefined, config |-> EmptyObj]

\* the file a setter works on
SetTarget(fn, g, p) == IF fn = "setGlobalConfig" THEN g ELSE p

\* config.ts 86-87, 93-94: the call reads its file and is suspended
ScRead(p, fn, key, value) ==
  /\ scPc[p] = "idle"
  /\ scPc' = [scPc EXCEPT ![p] = "read"]
  /\ scLoc' = [scLoc EXCEPT ![p] = [fn |-> fn, key |-> key, value |-> value,
                                    config |-> ReadJsonFile(SetTarget(fn, globalCfg, projectCfg))]]
  /\ scLog' = Append(scLog, <<p, "r">>)
  /\ UNCHANGED <<globalCfg, projectCfg, scOrig, setRaceRest>>

\* a write that reads the file again
ScWritten_Reread(f, loc) == SetConfigKey(f, loc.key, loc.value)

\* config.ts 88-89, 95-96: the object read earlier, with the key assigned,
\* replaces the file
ScWritten(f, loc) == CfgFileOf(AssignKey(loc.config, loc.key, loc.value))

\* config.ts 88-89, 95-96: the call resumes and writes its file
ScWrite(p) ==
  /\ scPc[p] = "read"
  /\ scPc' = [scPc EXCEPT ![p] = "done"]
  /\ IF scLoc[p].fn = "setGlobalConfig"
     THEN globalCfg' = ScWritten(globalCfg, scLoc[p]) /\ UNCHANGED projectCfg
     ELSE projectCfg' = ScWritten(projectCfg, scLoc[p]) /\ UNCHANGED globalCfg
  /\ scLog' = Append(scLog, <<p, "w">>)
  /\ UNCHANGED <<scLoc, scOrig, setRaceRest>>

\* no interleaved setter started
SetRaceIdle ==
  /\ scPc = [p \in SetProcs |-> "idle"]
  /\ scLoc = [p \in SetProcs |-> NoSetLocals]
  /\ scLog = << >>
  /\ scOrig = <<NoCfgFile, NoCfgFile>>

(***************************************************************************)
(* The artifact locators findLatestZip and findApk.                        *)
(***************************************************************************)
\* an entry: the extension its name ends with; where it lies (top: directly
\* inside the scanned directory; sub: in a subdirectory of it; other: outside
\* of it, as in the other variant's output directory); whether its relative
\* path contains 'androidTest'; its modification time
Entry(ext, where, test, mtime) == [ext |-> ext, where |-> where, test |-> test, mtime |-> mtime]

Entries ==
  {Entry(x, w, t, m) : x \in {"zip", "apk", "txt"}, w \in {"top", "sub", "other"},
                       t \in BOOLEAN, m \in 1..MaxTime}

\* the sequences over S of length at most n
SeqsUpTo(S, n) == UNION {[1..k -> S] : k \in 0..n}

\* the scanned directory: it exists or not; without it nothing lies inside
Dirs ==
  {[exists |-> TRUE, entries |-> es] : es \in SeqsUpTo(Entries, MaxEntries)} \cup
  {[exists |-> FALSE, entries |-> es] :
     es \in {q \in SeqsUpTo(Entries, MaxEntries) : \A i \in DOMAIN q : q[i].where = "other"}}

\* the outcome of a call: it raised, or returned the path of the entry number
\* idx of the listing (0: it returned null)
Found(fn, threw, idx) == [fn |-> fn, threw |-> threw, idx |-> idx]

NoFind == Found("none", FALSE, 0)

\* the smallest element of a non-empty set of indices
MinIdx(S) == CHOOSE i \in S : \A j \in S : i <= j

\* a findLatestZip that sorts the oldest first
FindLatestZip_Oldest(d) ==
  IF ~d.exists THEN Found("findLatestZip", TRUE, 0)
  ELSE LET zips == {i \in DOMAIN d.entries : d.entries[i].where = "top" /\ d.entries[i].ext = "zip"}
           first == {i \in zips : \A j \in zips : d.entries[j].mtime >= d.entries[i].mtime}
       IN  Found("findLatestZip", FALSE, IF zips = {} THEN 0 ELSE MinIdx(first))

\* part_001 119-131: findLatestZip(root): readdirSync(root) raises for a
\* missing directory and lists the names directly inside otherwise; the names
\* ending in .zip are sorted by mtime, newest first (the sort is stable), and
\* the first is returned, null when there is none
FindLatestZip(d) ==
  IF ~d.exists THEN Found("findLatestZip", TRUE, 0)
  ELSE LET zips == {i \in DOMAIN d.entries : d.entries[i].where = "top" /\ d.entries[i].ext = "zip"}
           first == {i \in zips : \A j \in zips : d.entries[j].mtime <= d.entries[i].mtime}
       IN  Found("findLatestZip", FALSE, IF zips = {} THEN 0 ELSE MinIdx(first))

\* a findApk that takes test artifacts too
FindApk_WithTests(d) ==
  IF ~d.exists THEN Found("findApk", FALSE, 0)
  ELSE LET apks == {i \in DOMAIN d.entries : d.entries[i].where # "other" /\ d.entries[i].ext = "apk"}
       IN  Found("findApk", FALSE, IF apks = {} THEN 0 ELSE MinIdx(apks))

\* part_001 95-108: findApk(androidDir, variant): null when the variant's
\* output directory is missing; otherwise the first entry of the recursive
\* listing whose path ends in .apk and does not contain 'androidTest', null
\* when there is none
FindApk(d) ==
  IF ~d.exists THEN Found("findApk", FALSE, 0)
  ELSE LET apks == {i \in DOMAIN d.entries :
                      /\ d.entries[i].where # "other"
                      /\ d.entries[i].ext = "apk"
                      /\ ~d.entries[i].test}
       IN  Found("findApk", FALSE, IF apks = {} THEN 0 ELSE MinIdx(apks))

\* a call of findLatestZip on the directory
FindLatestZipCall ==
  /\ fdLast' = FindLatestZip(fdDir)
  /\ UNCHANGED <<fdDir, findRest>>

\* a call of findApk on the directory
FindApkCall ==
  /\ fdLast' = FindApk(fdDir)
  /\ UNCHANGED <<fdDir, findRest>>

\* no directory scanned
FindIdle ==
  /\ fdDir = [exists |-> FALSE, entries |-> << >>]
  /\ fdLast = NoFind

(***************************************************************************)
(* The components at rest.                                                 *)
(***************************************************************************)
\* the two interleaved syncVersion calls
Procs == {1, 2}

\* the locals of a call that has not started
NoLocals == [env |-> "dev", bump |-> FALSE, codes |-> EmptyObj]

\* no interleaved call started
RaceIdle ==
  /\ svPc = [p \in Procs |-> "idle"]
  /\ svLoc = [p \in Procs |-> NoLocals]
  /\ svLog = << >>
  /\ svOrig = NoCodesFile

\* no config file on disk and no loadConfig call made
CfgIdle ==
  /\ globalCfg = NoCfgFile
  /\ projectCfg = NoCfgFile
  /\ cfgLast = NoLoad

\* no cache file on disk and no fetchProjectConfig call made
FetchIdle ==
  /\ cacheFile = NoCache
  /\ netCalls = 0
  /\ fetchHist = << >>

(***************************************************************************)
(* The deploy pipelines: DeployOta.run and DeployNative.run from the start *)
(* of their try block, the job parameters resolved.                        *)
(***************************************************************************)
\* a run whose trapeze command comes before its build command
DpOrder_TrapezeFirst ==
  << "npmVersion", "syncVersion", "assets", "trapeze", "build", "capSync",
     "package", "locate", "ghPages", "upload", "unlink" >>

\* the operations a run performs, in program order: `npm version`,
\* syncVersion, the four commands of runBuildSteps, the packaging command
\* (bundle zip or gradlew), the artifact lookup (findLatestZip or findApk),
\* deployToGhPages, uploadFile, and the removal of the uploaded archive
\* ota.ts 198-279, part_006 172-260
DpOrder ==
  << "npmVersion", "syncVersion", "assets", "build", "trapeze", "capSync",
     "package", "locate", "ghPages", "upload", "unlink" >>

DpOps == {DpOrder[i] : i \in DOMAIN DpOrder}

\* the index of op in the program order
DpIndex(op) == CHOOSE i \in DOMAIN DpOrder : DpOrder[i] = op

\* where the run goes after op: the next operation, Done after the last
DpAfter(op) ==
  IF DpIndex(op) = Len(DpOrder) THEN "Done" ELSE DpOrder[DpIndex(op) + 1]

\* the pipeline stage an operation belongs to
StageOf(op) ==
  CASE op = "npmVersion" -> "VersionBump"
    [] op = "syncVersion" -> "VersionSync"
    [] op \in {"assets", "build", "trapeze", "capSync"} -> "BuildSteps"
    [] op \in {"package", "locate"} -> "Package"
    [] op = "ghPages" -> "AssetPublish"
    [] op = "upload" -> "Upload"
    [] OTHER -> "Cleanup"

\* a channel of the cloud project (CloudChannel): its name and the environment
\* it deploys, "" when none is configured
Channel(name, environment) == [name |-> name, environment |-> environment]

\* what getChannels may return, and the channel names a user may choose or type
CloudChannels ==
  << Channel("production", "prod"), Channel("beta", "staging"),
     Channel("nightly", "dev"), Channel("legacy", "") >>
ChannelLists == {<< >>, CloudChannels}
ChannelNames == {"production", "beta", "nightly", "legacy", "ghost"}

\* ota.ts 119: channels.find((c) => c.name === channel): the first channel of
\* that name, or none
FindChannel(channels, channel) ==
  LET S == {i \in DOMAIN channels : channels[i].name = channel}
  IN  IF S = {} THEN [found |-> FALSE, environment |-> ""]
      ELSE [found |-> TRUE, environment |-> channels[MinIdx(S)].environment]

\* an environment that stays the declared default
SelectedChannelEnv_Default(channels, channel) == "staging"

\* ota.ts 129-130: selectedChannelEnv = selectedChannel.environment; env is it
SelectedChannelEnv(channels, channel) == FindChannel(channels, channel).environment

\* the flags and wizard answers of one run: the bump type given or not, the
\* skip flags, the platform, the environment, and for OTA the channels the
\* cloud returns and the channel chosen
Job(bump, skipBuild, skipAsset, platform, env) ==
  [bump |-> bump, skipBuild |-> skipBuild, skipAsset |-> skipAsset,
   platform |-> platform, env |-> env, channels |-> << >>, channel |-> ""]

\* an OTA job before its channel is resolved: env is the declared default
\* (ota.ts 101: let selectedChannelEnv = 'staging')
OtaJob(bump, skipBuild, skipAsset, channels, channel) ==
  [Job(bump, skipBuild, skipAsset, "android", "staging")
     EXCEPT !.channels = channels, !.channel = channel]

\* OTA builds for android and takes the environment of the chosen channel
\* (ota.ts 119-130, 219); native takes --platform and env = 'prod' (part_006 75)
Jobs(kind) ==
  IF kind = "ota"
  THEN {OtaJob(b, sb, sa, cs, c) : b \in BOOLEAN, sb \in BOOLEAN, sa \in BOOLEAN,
                                  cs \in ChannelLists, c \in ChannelNames}
  ELSE {Job(b, sb, sa, pf, "prod") : b \in BOOLEAN, sb \in BOOLEAN, sa \in BOOLEAN,
                                       pf \in {"android", "ios"}}

\* ota.ts 119-130: the chosen channel exists and has an environment
ChannelResolved(kind, job) ==
  kind = "ota" =>
    /\ FindChannel(job.channels, job.channel).found
    /\ FindChannel(job.channels, job.channel).environment # ""

\* the job once the wizard is through: OTA has taken the channel's environment
JobAfterWizard(kind, job) ==
  IF kind = "ota"
  THEN [job EXCEPT !.env = SelectedChannelEnv(job.channels, job.channel)]
  ELSE job

\* a run that never removes the uploaded archive
Skipped_NoCleanup(op, kind, job) ==
  CASE op = "npmVersion" -> ~job.bump
    [] op = "assets" -> (kind = "ota" /\ job.skipBuild) \/ job.skipAsset
    [] op \in {"build", "trapeze", "capSync"} -> kind = "ota" /\ job.skipBuild
    [] op = "ghPages" -> job.skipAsset
    [] op = "unlink" -> TRUE
    [] OTHER -> FALSE

\* the run does not perform op
\* ota.ts 199, 214, 244; part_001 73; part_006 173, 188, 225, 259-260
Skipped(op, kind, job) ==
  CASE op = "npmVersion" -> ~job.bump
    [] op = "assets" -> (kind = "ota" /\ job.skipBuild) \/ job.skipAsset
    [] op \in {"build", "trapeze", "capSync"} -> kind = "ota" /\ job.skipBuild
    [] op = "ghPages" -> job.skipAsset
    [] op = "unlink" -> kind = "native"
    [] OTHER -> FALSE

\* no external command
NoCommand == << "", "" >>

\* the external command op launches through runCommand
\* ota.ts 201, 235; part_001 74-89; part_006 175, 213
Command(op, kind, job) ==
  CASE op = "npmVersion" -> << "npm version", "--no-git-tag-version" >>
    [] op = "assets" -> << "npm run assets:", job.env >>
    [] op = "build" -> << "pnpm build:", job.env >>
    [] op = "trapeze" -> << "pnpm trapeze:", job.env >>
    [] op = "capSync" -> << "npx cap sync", job.platform >>
    [] op = "package" ->
         IF kind = "ota" THEN << "npx @capgo/cli bundle zip", "--json" >>
         ELSE IF job.platform = "android" THEN << "gradlew", "assemble" >>
         ELSE NoCommand
    [] OTHER -> NoCommand

\* the working directory op's command runs in: the project root, or its
\* android directory for gradlew (part_006 208-213)
CommandCwd(op, kind) ==
  IF op = "package" /\ kind = "native" THEN "root/android" ELSE "root"

\* part_001 42-54: the diagnostic block of a failed command
DiagnosticBlock(cmd, cwd) == [command |-> cmd, cwd |-> cwd]

\* a block left in the log by an earlier run
OldBlock == DiagnosticBlock(<< "pnpm build:", "dev" >>, "root")

\* a runCommand that writes the log file anew
RunCommandLog_Overwrite(log, cmd, cwd, o) ==
  IF cmd # NoCommand /\ o = "fail" THEN << DiagnosticBlock(cmd, cwd) >> ELSE log

\* part_001 30-60: the log file after runCommand(cmd, cwd) ended with outcome
\* o: fs.appendFileSync(logFile, fullLog) in the catch block, nothing otherwise
RunCommandLog(log, cmd, cwd, o) ==
  IF cmd # NoCommand /\ o = "fail" THEN Append(log, DiagnosticBlock(cmd, cwd)) ELSE log

\* a run that does not wait for the build command
Awaits_NotBuild(op) == op # "build"

\* every operation is awaited (or synchronous): the run is suspended until
\* it settles
Awaits(op) == TRUE

\* a run that also swallows a failure of the trapeze command
Caught_AlsoTrapeze(op) == op \in {"ghPages", "trapeze"}

\* a run without the try/catch around deployToGhPages
Caught_Nothing(op) == FALSE

\* ota.ts 245-250, part_006 226-231: the failure of op is caught and the run
\* goes on
Caught(op) == op = "ghPages"

\* how op may end, given the files: ok or fail
\* syncVersion throws as SvThrows says; `npm version` needs the manifest; the
\* native pipeline throws for ios before any command (part_006 216)
DpOutcomes(op, kind, job) ==
  CASE op = "syncVersion" ->
         IF SvThrows(pkgExists, envFile, job.env) THEN {"fail"} ELSE {"ok"}
    [] op = "npmVersion" -> IF pkgExists THEN {"ok", "fail"} ELSE {"fail"}
    [] op = "package" ->
         IF kind = "native" /\ job.platform = "ios" THEN {"fail"} ELSE {"ok", "fail"}
    [] OTHER -> {"ok", "fail"}

\* a run not started
DpIdle ==
  /\ dpKind = "ota"
  /\ dpJob = Job(FALSE, FALSE, FALSE, "android", "dev")
  /\ dpPc = "Done"
  /\ dpWait = FALSE
  /\ dpInflight = {}
  /\ dpLog = << >>
  /\ dpCmds = << >>
  /\ dpArtifact = "none"
  /\ dpFailedOps = {}
  /\ dpFinish = FALSE
  /\ dpFail = FALSE
  /\ dpExit = "none"
  /\ dpUploadOk = FALSE
  /\ dpUpload = NoUpload
  /\ dpLogFile = << >>

\* the run is at the operation op
DpAt(op) == dpPc = op /\ ~dpWait /\ dpExit = "running"

\* the run passes over an operation its flags skip
DpSkip(op) ==
  /\ DpAt(op)
  /\ Skipped(op, dpKind, dpJob)
  /\ dpPc' = DpAfter(op)
  /\ dpExit' = IF DpAfter(op) = "Done" THEN "ok" ELSE dpExit
  /\ UNCHANGED <<dpKind, dpJob, dpWait, dpInflight, dpLog, dpCmds, dpArtifact,
                 dpFailedOps, dpFinish, dpFail, dpUploadOk, dpUpload, dpLogFile, fsVars, svLast, dpRest>>

\* the run starts op and, when op is awaited, suspends on it
DpBegin(op) ==
  /\ DpAt(op)
  /\ ~Skipped(op, dpKind, dpJob)
  /\ dpInflight' = dpInflight \cup {op}
  /\ dpLog' = Append(dpLog, << "begin", op >>)
  /\ dpCmds' = IF Command(op, dpKind, dpJob) = NoCommand THEN dpCmds
               ELSE Append(dpCmds, Command(op, dpKind, dpJob))
  /\ IF Awaits(op)
     THEN dpWait' = TRUE /\ UNCHANGED dpPc
     ELSE dpPc' = DpAfter(op) /\ UNCHANGED dpWait
  /\ UNCHANGED <<dpKind, dpJob, dpOut, fsVars, svLast, dpRest>>

\* a run that always asks syncVersion for a bump
SyncBumpArg_Always(job) == TRUE

\* ota.ts 208, part_006 182: the bump argument of syncVersion: !!version
SyncBumpArg(job) == job.bump

\* a run that puts the package version and the counters file back when an
\* operation after version sync fails
DpFiles_Rollback(op, o) ==
  CASE op = "npmVersion" /\ o = "ok" ->
         /\ pkgVersion' = pkgVersion + 1
         /\ UNCHANGED <<pkgExists, codesFile, envFile, svLast>>
    [] op = "syncVersion" ->
         /\ SvThrows(pkgExists, envFile, dpJob.env) <=> o = "fail"
         /\ LET bump == SyncBumpArg(dpJob)
                codes == SvBump(SvReadCodes(codesFile), dpJob.env, bump)
                vc == SvVersionCode(codes, dpJob.env)
            IN  IF o = "fail"
                THEN /\ svLast' = CallRec(dpJob.env, bump, TRUE, codesFile, NoCall.ret)
                     /\ UNCHANGED fsVars
                ELSE /\ envFile' = SvEnvFileAfter(envFile, dpJob.env, pkgVersion, vc)
                     /\ codesFile' = SvPersist(codesFile, codes, dpJob.env)
                     /\ svLast' = CallRec(dpJob.env, bump, FALSE, codesFile,
                                          SvReturn(pkgVersion, vc))
                     /\ UNCHANGED <<pkgExists, pkgVersion>>
    [] op \notin {"npmVersion", "syncVersion"} /\ o = "fail" ->
         /\ pkgVersion' = 1
         /\ codesFile' = svOrig
         /\ UNCHANGED <<pkgExists, envFile, svLast>>
    [] OTHER -> UNCHANGED <<fsVars, svLast>>

\* what op does to the project root when it ends with outcome o
DpFiles(op, o) ==
  CASE op = "npmVersion" /\ o = "ok" ->
         /\ pkgVersion' = pkgVersion + 1
         /\ UNCHANGED <<pkgExists, codesFile, envFile, svLast>>
    [] op = "syncVersion" ->
         /\ SvThrows(pkgExists, envFile, dpJob.env) <=> o = "fail"
         /\ LET bump == SyncBumpArg(dpJob)
                codes == SvBump(SvReadCodes(codesFile), dpJob.env, bump)
                vc == SvVersionCode(codes, dpJob.env)
            IN  IF o = "fail"
                THEN /\ svLast' = CallRec(dpJob.env, bump, TRUE, codesFile, NoCall.ret)
                     /\ UNCHANGED fsVars
                ELSE /\ envFile' = SvEnvFileAfter(envFile, dpJob.env, pkgVersion, vc)
                     /\ codesFile' = SvPersist(codesFile, codes, dpJob.env)
                     /\ svLast' = CallRec(dpJob.env, bump, FALSE, codesFile,
                                          SvReturn(pkgVersion, vc))
                     /\ UNCHANGED <<pkgExists, pkgVersion>>
    [] OTHER -> UNCHANGED <<fsVars, svLast>>

\* the artifact after op ends with outcome o: findLatestZip / findApk found
\* a file; fs.unlinkSync removed it
DpArtifactAfter(op, o) ==
  CASE op = "locate" /\ o = "ok" -> "found"
    [] op = "unlink" /\ o = "ok" -> "deleted"
    [] OTHER -> dpArtifact

\* ota.ts 210-211, part_006 184-185: apiUrl = freshConfig.endpoint, the base
\* of the upload URL `${apiUrl}/api/...`; with an undefined apiUrl the request
\* cannot reach a server
ApiUrl(cfg) == Get(cfg, "endpoint")

\* op settles with outcome o (the upload request with the response r, which
\* uploadFile turns into its result); a run suspended on op resumes:
\* ota.ts 277-284 / part_006 259-265 after the upload, the catch block
\* (ota.ts 293-297, part_006 274-278) after an uncaught failure
DpEnd(op, o, r) ==
  /\ op \in dpInflight
  /\ o \in DpOutcomes(op, dpKind, dpJob)
  /\ IF op = "upload"
     THEN /\ r \in UploadResponses /\ (o = "ok" <=> Is2xx(r))
          /\ ~Truthy(ApiUrl(LoadConfig(globalCfg, projectCfg, EmptyObj))) => r.kind = "transport"
     ELSE r = NoUploadResponse
  /\ dpInflight' = dpInflight \ {op}
  /\ dpLog' = Append(dpLog, << "end", op >>)
  /\ dpFailedOps' = IF o = "fail" THEN dpFailedOps \cup {op} ELSE dpFailedOps
  /\ DpFiles(op, o)
  /\ dpArtifact' = DpArtifactAfter(op, o)
  /\ dpLogFile' = RunCommandLog(dpLogFile, Command(op, dpKind, dpJob), CommandCwd(op, dpKind), o)
  /\ dpUpload' = IF op = "upload"
                 THEN [called |-> TRUE, resp |-> r, result |-> UploadFile(r)]
                 ELSE dpUpload
  /\ dpUploadOk' = IF op = "upload" THEN ~UploadFile(r).threw /\ UploadFile(r).success
                   ELSE dpUploadOk
  /\ IF dpPc = op /\ dpWait
     THEN /\ dpWait' = FALSE
          /\ IF (op # "upload" /\ (o = "ok" \/ Caught(op)))
                \/ (op = "upload" /\ ~UploadFile(r).threw /\ UploadAccepted(UploadFile(r)))
             THEN /\ dpPc' = DpAfter(op)
                  /\ dpFinish' = (dpFinish \/ op = "upload")
                  /\ dpExit' = IF DpAfter(op) = "Done" THEN "ok" ELSE dpExit
                  /\ UNCHANGED dpFail
             ELSE IF op = "upload" /\ ~UploadFile(r).threw
             THEN /\ dpPc' = "UploadFailed"
                  /\ dpFail' = TRUE
                  /\ dpExit' = "ok"
                  /\ UNCHANGED dpFinish
             ELSE /\ dpPc' = "Failed"
                  /\ dpFail' = TRUE
                  /\ dpExit' = "error"
                  /\ UNCHANGED dpFinish
     ELSE UNCHANGED <<dpPc, dpWait, dpFinish, dpFail, dpExit>>
  /\ UNCHANGED <<dpKind, dpJob, dpCmds, dpRest>>

\* one step of the run at (or settling) op
DpStep(op) ==
  \/ DpSkip(op)
  \/ DpBegin(op)
  \/ \E o \in {"ok", "fail"}, r \in UploadResponses \cup {NoUploadResponse} : DpEnd(op, o, r)

\* part_000 40-49: getProjectConfig returns the project descriptor, null when
\* .capucho/project.json is absent or unparsable
GetProjectConfig(p) == IF p.state = "ok" THEN "descriptor" ELSE "null"

\* auth.service.ts 80-83: config.endpoint || config.VITE_UPDATE_API_URL || null
GetEndpoint(cfg) == JsOr(Get(cfg, "endpoint"), Get(cfg, "VITE_UPDATE_API_URL"))

\* auth.service.ts 72-75: config.apiKey || null
GetApiKey(cfg) == Get(cfg, "apiKey")

\* a credential test that does not ask for the API key
CredentialsStored_EndpointOnly(cfg) == Truthy(GetEndpoint(cfg))

\* auth.service.ts 92-94: verifyCredentials goes on unless !endpoint || !apiKey
CredentialsStored(cfg) == Truthy(GetEndpoint(cfg)) /\ Truthy(GetApiKey(cfg))

\* how the server answers /api/auth/me (a profile, or anything else) and how
\* the wizard before the pipeline ends: the deploy goes ahead, the user
\* declines, or the request for the channels fails
ProfileOutcomes == {"profile", "null"}
WizardOutcomes == {"go", "declined", "channelError"}

\* ota.ts 72-192, part_006 50-166: the checks and the wizard before the try
\* block: project descriptor, credentials, channel (OTA resolves it to its
\* environment or stops) and confirmation
PreChecks(profile, wizard) ==
  /\ dpPc = "preCheck" /\ dpExit = "running"
  /\ LET cfg == LoadConfig(globalCfg, projectCfg, EmptyObj)
     IN  IF GetProjectConfig(projectCfg) = "null"
         THEN dpPc' = "NotInitialized" /\ dpExit' = "error"
         ELSE IF ~CredentialsStored(cfg) \/ profile = "null"
         THEN dpPc' = "NotAuthenticated" /\ dpExit' = "error"
         ELSE IF wizard = "channelError" \/ ~ChannelResolved(dpKind, dpJob)
         THEN dpPc' = "NoChannel" /\ dpExit' = "error"
         ELSE IF wizard = "declined"
         THEN dpPc' = "Declined" /\ dpExit' = "ok"
         ELSE dpPc' = DpOrder[1] /\ UNCHANGED dpExit
  /\ dpJob' = IF dpPc' \in {"Declined", DpOrder[1]} THEN JobAfterWizard(dpKind, dpJob) ELSE dpJob
  /\ UNCHANGED <<dpKind, dpWait, dpInflight, dpLog, dpCmds, dpArtifact,
                 dpFailedOps, dpFinish, dpFail, dpUploadOk, dpUpload, dpLogFile, fsVars, svLast, dpRest>>

PreFlight == \E profile \in ProfileOutcomes, wizard \in WizardOutcomes : PreChecks(profile, wizard)

VersionBump == DpStep("npmVersion")

VersionSync == DpStep("syncVersion")

BuildSteps == \E op \in {"assets", "build", "trapeze", "capSync"} : DpStep(op)

Package == DpStep("package") \/ DpStep("locate")

AssetPublish == DpStep("ghPages")

Upload == DpStep("upload")

Cleanup == DpStep("unlink")

\* the counters files a deployed project may hold at the start
DeployCodesFiles ==
  {NoCodesFile, CodesFileOf(DefaultCodes),
   CodesFileOf([e \in KnownEnvs |-> IF e = "prod" THEN 1 ELSE InitMaxCode])}

\* the user is logged in: the global config holds the endpoint and the API key
LoggedInCfg ==
  CfgFileOf([k \in {"endpoint", "apiKey"} |-> StrVal("u")])

\* the global config files of a deploy: none, that of a logged-in user, one
\* with an API key and no endpoint
DeployGlobalCfgs ==
  {NoCfgFile, LoggedInCfg, CfgFileOf([k \in {"apiKey"} |-> StrVal("u")])}

\* the project files of a deploy: none, unparsable, a descriptor, a descriptor
\* that also names an update URL
DeployProjectCfgs ==
  {NoCfgFile, CorruptCfgFile, CfgFileOf(EmptyObj),
   CfgFileOf([k \in {"VITE_UPDATE_API_URL"} |-> StrVal("u")])}

Init ==
  /\ pkgExists \in BOOLEAN
  /\ pkgVersion = 1
  /\ codesFile \in DeployCodesFiles
  /\ envFile \in InitEnvFiles
  /\ svLast = NoCall
  /\ svPrev = NoCall
  /\ setLast = NoSet
  /\ SetRaceIdle
  /\ FindIdle
  /\ svPc = [p \in Procs |-> "idle"]
  /\ svLoc = [p \in Procs |-> NoLocals]
  /\ svLog = << >>
  /\ svOrig = codesFile
  /\ globalCfg \in DeployGlobalCfgs
  /\ projectCfg \in DeployProjectCfgs
  /\ cfgLast = NoLoad
  /\ FetchIdle
  /\ dpKind \in {"ota", "native"}
  /\ dpJob \in Jobs(dpKind)
  /\ dpPc = "preCheck"
  /\ dpWait = FALSE
  /\ dpInflight = {}
  /\ dpLog = << >>
  /\ dpCmds = << >>
  /\ dpArtifact = "none"
  /\ dpFailedOps = {}
  /\ dpFinish = FALSE
  /\ dpFail = FALSE
  /\ dpExit = "running"
  /\ dpUploadOk = FALSE
  /\ dpUpload = NoUpload
  /\ dpLogFile = << >>

Next ==
  \/ PreFlight
  \/ VersionBump
  \/ VersionSync
  \/ BuildSteps
  \/ Package
  \/ AssetPublish
  \/ Upload
  \/ Cleanup

Spec == Init /\ [][Next]_vars

(***************************************************************************)
(* Two syncVersion calls on one project root whose awaits interleave.      *)
(***************************************************************************)
\* config.ts 117-130: the manifest is checked and the counters file is read
SvStart(p, env, bump) ==
  /\ svPc[p] = "idle"
  /\ IF ~pkgExists
     THEN /\ svPc' = [svPc EXCEPT ![p] = "threw"]
          /\ svLoc' = [svLoc EXCEPT ![p] = [env |-> env, bump |-> bump, codes |-> EmptyObj]]
          /\ UNCHANGED svLog
     ELSE /\ svPc' = [svPc EXCEPT ![p] = "read"]
          /\ svLoc' = [svLoc EXCEPT ![p] = [env |-> env, bump |-> bump,
                                            codes |-> SvReadCodes(codesFile)]]
          /\ svLog' = Append(svLog, <<p, "r">>)
  /\ UNCHANGED <<fsVars, raceRest>>

\* config.ts 132-160: the env file is located, the counter bumped in memory and
\* the env file rewritten
SvSyncEnv(p) ==
  /\ svPc[p] = "read"
  /\ LET env == svLoc[p].env
     IN  IF SvThrows(pkgExists, envFile, env)
         THEN /\ svPc' = [svPc EXCEPT ![p] = "threw"]
              /\ UNCHANGED <<svLoc, envFile>>
         ELSE LET codes == SvBump(svLoc[p].codes, env, svLoc[p].bump)
              IN  /\ svPc' = [svPc EXCEPT ![p] = "synced"]
                  /\ svLoc' = [svLoc EXCEPT ![p].codes = codes]
                  /\ envFile' = SvEnvFileAfter(envFile, env, pkgVersion, SvVersionCode(codes, env))
  /\ UNCHANGED <<pkgExists, pkgVersion, codesFile, svLog, raceRest>>

\* config.ts 161: the counters file is written
SvWriteCodes(p) ==
  /\ svPc[p] = "synced"
  /\ codesFile' = SvPersist(codesFile, svLoc[p].codes, svLoc[p].env)
  /\ svPc' = [svPc EXCEPT ![p] = "done"]
  /\ svLog' = Append(svLog, <<p, "w">>)
  /\ UNCHANGED <<pkgExists, pkgVersion, envFile, svLoc, raceRest>>

InitRace ==
  /\ CfgIdle
  /\ FetchIdle
  /\ DpIdle
  /\ pkgExists \in BOOLEAN
  /\ pkgVersion = 1
  /\ codesFile \in InitCodesFiles
  /\ envFile \in InitEnvFiles
  /\ svLast = NoCall
  /\ svPrev = NoCall
  /\ setLast = NoSet
  /\ SetRaceIdle
  /\ FindIdle
  /\ svPc = [p \in Procs |-> "idle"]
  /\ svLoc = [p \in Procs |-> NoLocals]
  /\ svLog = << >>
  /\ svOrig = codesFile

RaceStart == \E p \in Procs, env \in EnvArgs, bump \in BOOLEAN : SvStart(p, env, bump)

RaceSyncEnv == \E p \in Procs : SvSyncEnv(p)

RaceWriteCodes == \E p \in Procs : SvWriteCodes(p)

NextRace == RaceStart \/ RaceSyncEnv \/ RaceWriteCodes

SpecRace == InitRace /\ [][NextRace]_vars

(***************************************************************************)
(* Sequential specification of syncVersion.                                *)
(***************************************************************************)
InitSync ==
  /\ pkgExists \in BOOLEAN
  /\ pkgVersion = 1
  /\ codesFile \in InitCodesFiles
  /\ envFile \in InitEnvFiles
  /\ svLast = NoCall
  /\ svPrev = NoCall
  /\ setLast = NoSet
  /\ SetRaceIdle
  /\ FindIdle
  /\ RaceIdle
  /\ CfgIdle
  /\ FetchIdle
  /\ DpIdle

SyncCall == \E env \in EnvArgs, bump \in BOOLEAN : SyncVersion(env, bump)

NextSync == SyncCall

SpecSync == InitSync /\ [][NextSync]_vars

(***************************************************************************)
(* Specification of runBuildSteps called on its own, over a deploy log     *)
(* that may hold a block of an earlier run.                                *)
(***************************************************************************)
InitBuild ==
  /\ pkgExists = TRUE
  /\ pkgVersion = 1
  /\ codesFile = CodesFileOf(DefaultCodes)
  /\ envFile \in {ef \in InitEnvFiles : \A e \in KnownEnvs : ef[e].exists}
  /\ svLast = NoCall
  /\ svPrev = NoCall
  /\ setLast = NoSet
  /\ SetRaceIdle
  /\ FindIdle
  /\ RaceIdle
  /\ CfgIdle
  /\ FetchIdle
  /\ dpKind \in {"ota", "native"}
  /\ dpJob \in {JobAfterWizard(dpKind, j) :
                  j \in {x \in Jobs(dpKind) : ~x.skipBuild /\ ~x.bump /\ ChannelResolved(dpKind, x)}}
  /\ dpPc = "assets"
  /\ dpWait = FALSE
  /\ dpInflight = {}
  /\ dpLog = << >>
  /\ dpCmds = << >>
  /\ dpArtifact = "none"
  /\ dpFailedOps = {}
  /\ dpFinish = FALSE
  /\ dpFail = FALSE
  /\ dpExit = "running"
  /\ dpUploadOk = FALSE
  /\ dpUpload = NoUpload
  /\ dpLogFile \in {<< >>, << OldBlock >>}

NextBuild == BuildSteps

SpecBuild == InitBuild /\ [][NextBuild]_vars

(***************************************************************************)
(* Specification of the artifact locators over every small directory.      *)
(***************************************************************************)
InitFind ==
  /\ pkgExists = FALSE
  /\ pkgVersion = 1
  /\ codesFile = NoCodesFile
  /\ envFile = [e \in KnownEnvs |-> [exists |-> FALSE, content |-> << >>]]
  /\ svLast = NoCall
  /\ svPrev = NoCall
  /\ setLast = NoSet
  /\ SetRaceIdle
  /\ RaceIdle
  /\ CfgIdle
  /\ FetchIdle
  /\ DpIdle
  /\ fdDir \in Dirs
  /\ fdLast = NoFind

NextFind == FindLatestZipCall \/ FindApkCall

SpecFind == InitFind /\ [][NextFind]_vars

(***************************************************************************)
(* Specification of loadConfig over every pair of config files.            *)
(***************************************************************************)
\* a project root without manifest, counters or env files
FsIdle ==
  /\ pkgExists = FALSE
  /\ pkgVersion = 1
  /\ codesFile = NoCodesFile
  /\ envFile = [e \in KnownEnvs |-> [exists |-> FALSE, content |-> << >>]]

InitConfig ==
  /\ FsIdle
  /\ DpIdle
  /\ svLast = NoCall
  /\ svPrev = NoCall
  /\ setLast = NoSet
  /\ SetRaceIdle
  /\ FindIdle
  /\ RaceIdle
  /\ FetchIdle
  /\ globalCfg \in CfgFilesOver(FlagKeys)
  /\ projectCfg \in CfgFilesOver(FlagKeys)
  /\ cfgLast = NoLoad

LoadCall == \E flags \in FlagMaps : LoadConfigCall(flags)

NextConfig == LoadCall

SpecConfig == InitConfig /\ [][NextConfig]_vars

(***************************************************************************)
(* Specification of the two setters over every pair of config files.       *)
(***************************************************************************)
InitSet ==
  /\ FsIdle
  /\ DpIdle
  /\ svLast = NoCall
  /\ svPrev = NoCall
  /\ setLast = NoSet
  /\ SetRaceIdle
  /\ FindIdle
  /\ RaceIdle
  /\ FetchIdle
  /\ globalCfg \in CfgFilesOver(FlagKeys)
  /\ projectCfg \in CfgFilesOver(FlagKeys)
  /\ cfgLast = NoLoad

SetGlobalCall == \E k \in SetKeys : \E v \in SetValuesOf(k) : SetGlobalConfig(k, v)

SetProjectCall == \E k \in SetKeys : \E v \in SetValuesOf(k) : SetProjectConfig(k, v)

NextSet == SetGlobalCall \/ SetProjectCall

SpecSet == InitSet /\ [][NextSet]_vars

(***************************************************************************)
(* Specification of two interleaved setters.                               *)
(***************************************************************************)
InitSetRace ==
  /\ FsIdle
  /\ DpIdle
  /\ svLast = NoCall
  /\ svPrev = NoCall
  /\ setLast = NoSet
  /\ FindIdle
  /\ RaceIdle
  /\ FetchIdle
  /\ globalCfg \in CfgFilesOver({"endpoint"})
  /\ projectCfg \in CfgFilesOver(FlagKeys)
  /\ cfgLast = NoLoad
  /\ scPc = [p \in SetProcs |-> "idle"]
  /\ scLoc = [p \in SetProcs |-> NoSetLocals]
  /\ scLog = << >>
  /\ scOrig = <<globalCfg, projectCfg>>

SetRaceRead ==
  \E p \in SetProcs, fn \in {"setGlobalConfig", "setProjectConfig"}, k \in SetKeys :
    \E v \in SetValuesOf(k) : ScRead(p, fn, k, v)

SetRaceWrite == \E p \in SetProcs : ScWrite(p)

NextSetRace == SetRaceRead \/ SetRaceWrite

SpecSetRace == InitSetRace /\ [][NextSetRace]_vars

(***************************************************************************)
(* Specification of fetchProjectConfig calls made one after another.       *)
(***************************************************************************)
InitFetch ==
  /\ FsIdle
  /\ DpIdle
  /\ svLast = NoCall
  /\ svPrev = NoCall
  /\ setLast = NoSet
  /\ SetRaceIdle
  /\ FindIdle
  /\ RaceIdle
  /\ globalCfg \in CfgFilesOver({"endpoint", "apiKey"})
  /\ projectCfg \in CfgFilesOver({"VITE_UPDATE_API_URL", "apiKey"})
  /\ cfgLast = NoLoad
  /\ cacheFile \in {NoCache, CorruptCache, CacheOf("P1")}
  /\ netCalls = 0
  /\ fetchHist = << >>

FetchCall ==
  \E resp \in Responses \cup {NoResponse}, wr \in WriteOutcomes \cup {"none"} :
    FetchProjectConfig(resp, wr)

NextFetch == FetchCall

SpecFetch == InitFetch /\ [][NextFetch]_vars

(***************************************************************************)
(* Claims about the deploy pipelines.                                      *)
(***************************************************************************)
\* the operations whose failure the claim calls a stage failure: the
\* version-bump command, version sync, the build-step commands, the packaging
\* command and the artifact lookup
FatalStageOps ==
  {"npmVersion", "syncVersion", "assets", "build", "trapeze", "capSync", "package", "locate"}

\* uploadFile has been called
UploadAttempted == \E i \in DOMAIN dpLog : dpLog[i] = << "begin", "upload" >>

\* C1: once a stage fails (the version-bump command, version sync, a build-step
\* command or the packaging command fails, or no artifact is found), nothing is
\* started after it: no later command, no upload; and the run ends reporting
\* failure, never success.
C1_StageFailureHalts ==
  \A f \in dpFailedOps \cap FatalStageOps :
    /\ dpPc = "Failed"
    /\ dpFail /\ dpExit = "error" /\ ~dpFinish
    /\ dpInflight = {}
    /\ dpFailedOps = {f}
    /\ dpLog[Len(dpLog)] = << "end", f >>
    /\ Command(f, dpKind, dpJob) # NoCommand =>
         dpCmds[Len(dpCmds)] = Command(f, dpKind, dpJob)
    /\ ~UploadAttempted

\* the trapeze command of a native deploy failed
C1_Witness ==
  /\ dpKind = "native"
  /\ dpFailedOps = {"trapeze"}
  /\ dpPc = "Failed"
  /\ Len(dpCmds) >= 3

\* C2: when deployToGhPages throws, the run still reaches the Upload stage and
\* calls uploadFile, and it reports success (progress.finish) whenever that
\* upload succeeds; unless the removal of the archive then fails, the run
\* ends without a failure report.
C2_AssetPublishFailureNotFatal ==
  "ghPages" \in dpFailedOps =>
    /\ dpPc \in {"upload", "unlink", "Done", "UploadFailed", "Failed"}
    /\ (dpPc # "upload" \/ dpWait) => UploadAttempted
    /\ dpPc = "Failed" => "unlink" \in dpFailedOps
    /\ dpUploadOk => dpFinish
    /\ (dpUploadOk /\ "unlink" \notin dpFailedOps) => (~dpFail /\ dpPc \in {"unlink", "Done"})

\* deployToGhPages threw in an OTA deploy, the upload succeeded and the run
\* finished with a success report
C2_Witness ==
  /\ dpKind = "ota"
  /\ "ghPages" \in dpFailedOps
  /\ dpUploadOk
  /\ dpFinish
  /\ dpPc = "Done"

\* the position of an operation's stage in the order VersionBump, VersionSync,
\* BuildSteps, Package, AssetPublish, Upload (and the cleanup after it)
StageRank(op) ==
  CASE op = "npmVersion" -> 1
    [] op = "syncVersion" -> 2
    [] op \in {"assets", "build", "trapeze", "capSync"} -> 3
    [] op \in {"package", "locate"} -> 4
    [] op = "ghPages" -> 5
    [] op = "upload" -> 6
    [] OTHER -> 7

\* C3: the stages that execute do so in the order VersionBump, VersionSync,
\* BuildSteps, Package, AssetPublish, Upload; an operation starts only after
\* every operation started before it has completed; and uploadFile is called
\* only after the artifact lookup has found an artifact.
C3_StagesInOrder ==
  \A j \in DOMAIN dpLog :
    dpLog[j][1] = "begin" =>
      /\ \A i \in 1..(j - 1) :
           dpLog[i][1] = "begin" =>
             /\ StageRank(dpLog[i][2]) <= StageRank(dpLog[j][2])
             /\ dpLog[i][2] # dpLog[j][2]
             /\ \E m \in (i + 1)..(j - 1) : dpLog[m] = << "end", dpLog[i][2] >>
      /\ dpLog[j][2] = "upload" =>
           /\ \E m \in 1..(j - 1) : dpLog[m] = << "end", "locate" >>
           /\ "locate" \notin dpFailedOps
           /\ dpArtifact # "none"

\* an OTA deploy with a bump and nothing skipped ran all its operations
C3_Witness ==
  /\ dpKind = "ota"
  /\ dpPc = "Done"
  /\ Len(dpLog) = 22
  /\ dpFailedOps = {}

(***************************************************************************)
(* Claims about uploadFile and the end of the deploy pipelines.            *)
(***************************************************************************)
\* C13 as stated: when the server answers the upload with a non-2xx status,
\* uploadFile does not raise and returns success=false, status equal to the
\* HTTP status and data equal to the response body.
C13_Non2xxCaptured ==
  (dpUpload.called /\ dpUpload.resp.kind = "http" /\ ~Is2xx(dpUpload.resp)) =>
    /\ ~dpUpload.result.threw
    /\ dpUpload.result.success = FALSE
    /\ dpUpload.result.status = dpUpload.resp.status
    /\ dpUpload.result.data = dpUpload.resp.body

\* C14: when the upload request fails without a response, uploadFile does not
\* raise and returns success=false, status 0 and data equal to the
\* exception's message (non-empty when that message is).
C14_TransportFailureCaptured ==
  (dpUpload.called /\ dpUpload.resp.kind = "transport") =>
    /\ ~dpUpload.result.threw
    /\ dpUpload.result.success = FALSE
    /\ dpUpload.result.status = 0
    /\ dpUpload.result.data = dpUpload.resp.message
    /\ dpUpload.resp.message # "" => dpUpload.result.data # ""

\* the connection was refused and the result carries the exception's message
C14_Witness ==
  /\ dpUpload.called
  /\ dpUpload.resp = UpTransport("connect ECONNREFUSED")
  /\ dpUpload.result = UploadResult(FALSE, "connect ECONNREFUSED", 0, FALSE)
  /\ dpPc = "UploadFailed"

\* fs.unlinkSync has been called
CleanupAttempted == \E i \in DOMAIN dpLog : dpLog[i] = << "begin", "unlink" >>

\* C15 as stated: when the upload is answered with a non-2xx status or fails
\* without a response, the run does not report success and, for OTA, does not
\* delete (or try to delete) the bundle archive.
C15_UploadFailureNotSuccess ==
  (dpUpload.called /\ ~Is2xx(dpUpload.resp)) =>
    /\ ~dpFinish
    /\ dpFail
    /\ dpArtifact # "deleted"
    /\ ~CleanupAttempted

\* C16 as stated: when the upload of an OTA bundle succeeds, the run reports
\* success and, once it has ended, the archive no longer exists.
C16_Original ==
  (dpKind = "ota" /\ dpUploadOk) =>
    /\ dpFinish
    /\ dpExit # "running" => dpArtifact = "deleted"

\* C16 amended: when the upload of an OTA bundle succeeds, the run reports
\* success and then tries to delete the archive; when that deletion succeeds
\* the archive no longer exists and the run ends without a failure report;
\* when it fails the archive is still there.
C16_SuccessThenCleanup ==
  (dpKind = "ota" /\ dpUploadOk) =>
    /\ dpFinish
    /\ dpPc \in {"unlink", "Done", "Failed"}
    /\ dpExit # "running" =>
         /\ CleanupAttempted
         /\ IF "unlink" \in dpFailedOps
            THEN dpArtifact = "found"
            ELSE dpArtifact = "deleted" /\ dpPc = "Done" /\ ~dpFail /\ dpExit = "ok"

\* an OTA upload answered 200, the archive removed, the run over
C16_Witness ==
  /\ dpKind = "ota"
  /\ dpUpload.resp.status = 200
  /\ dpUploadOk /\ dpFinish
  /\ dpArtifact = "deleted"
  /\ dpPc = "Done"

\* C17 as stated: after a successful OTA upload, a failure to delete the
\* archive leaves the outcome of the run a success: no failure is reported and
\* the run does not end with an error.
C17_CleanupFailureIgnored ==
  (dpKind = "ota" /\ dpUploadOk /\ "unlink" \in dpFailedOps) =>
    /\ dpFinish
    /\ ~dpFail
    /\ dpExit = "ok"

\* C18: when the project descriptor file is absent (or unparsable) or the
\* stored configuration resolves no endpoint or no API key, the deploy stops
\* at its checks: no operation of the pipeline begins, so no external command
\* is run, the counters file and the env files are as at the start, and
\* uploadFile is not called.
C18_PreChecksAbort ==
  LET cfg == LoadConfig(globalCfg, projectCfg, EmptyObj)
  IN  ( \/ projectCfg.state # "ok"
        \/ ~Truthy(JsOr(Get(cfg, "endpoint"), Get(cfg, "VITE_UPDATE_API_URL")))
        \/ ~Truthy(Get(cfg, "apiKey")) ) =>
        /\ dpPc \in {"preCheck", "NotInitialized", "NotAuthenticated"}
        /\ dpPc # "preCheck" => dpExit = "error"
        /\ dpLog = << >> /\ dpCmds = << >> /\ dpInflight = {}
        /\ codesFile = svOrig
        /\ \A e \in KnownEnvs : envFile[e].exists => envFile[e].content = EnvTemplate(e)
        /\ svLast = NoCall
        /\ dpUpload = NoUpload
        /\ ~dpFinish

\* a descriptor naming an update URL is present and no API key is stored: the
\* run stopped as not authenticated
C18_Witness ==
  /\ projectCfg = CfgFileOf([k \in {"VITE_UPDATE_API_URL"} |-> StrVal("u")])
  /\ globalCfg = NoCfgFile
  /\ dpPc = "NotAuthenticated"
  /\ dpExit = "error"
  /\ pkgExists /\ \A e \in KnownEnvs : envFile[e].exists

\* C32 as stated: a deploy for which the effective config resolves no remote
\* endpoint for the upload never calls uploadFile.
C32_NoEndpointNoUpload ==
  ~Truthy(ApiUrl(LoadConfig(globalCfg, projectCfg, EmptyObj))) => ~UploadAttempted

\* the environments of the cloud channels named as the chosen channel
ChosenChannelEnvs ==
  {dpJob.channels[i].environment :
     i \in {x \in DOMAIN dpJob.channels : dpJob.channels[x].name = dpJob.channel}}

\* C39: in an OTA deploy, version sync is called for, and the build-step
\* commands are run for, the environment of the cloud channel named as the
\* chosen channel; when no channel of that name was returned, or it has no
\* environment, the run stops with an error before any operation begins: no
\* command is run, version sync is not called and nothing is uploaded.
C39_ChannelEnvUsed ==
  dpKind = "ota" =>
    /\ svLast.made => ChosenChannelEnvs = {svLast.env}
    /\ \A i \in DOMAIN dpCmds :
         dpCmds[i][1] \in {"npm run assets:", "pnpm build:", "pnpm trapeze:"} =>
           ChosenChannelEnvs = {dpCmds[i][2]}
    /\ (ChosenChannelEnvs \ {""} = {}) =>
         /\ dpPc \in {"preCheck", "NotInitialized", "NotAuthenticated", "NoChannel"}
         /\ dpPc # "preCheck" => dpExit = "error"
         /\ dpLog = << >> /\ dpCmds = << >> /\ dpInflight = {}
         /\ svLast = NoCall
         /\ dpUpload = NoUpload

\* an OTA deploy to the channel nightly, whose environment is dev, has run
\* its build commands for dev after syncing dev
C39_Witness ==
  /\ dpKind = "ota"
  /\ dpJob.channel = "nightly"
  /\ svLast.made /\ ~svLast.threw /\ svLast.env = "dev"
  /\ \E i \in DOMAIN dpCmds : dpCmds[i] = << "pnpm trapeze:", "dev" >>
  /\ dpPc = "Done"

(***************************************************************************)
(* Claims about runCommand and runBuildSteps.                              *)
(***************************************************************************)
\* C22: when a command run by runCommand ends, the deploy log gains exactly
\* one block naming the command and its working directory if the command
\* exited non-zero, in the step that hands the failure to the caller, and is
\* unchanged if it exited zero; no other step touches the log, so earlier
\* blocks are never rewritten or removed.
C22_FailureLoggedOnce ==
  [][IF \E op \in DpOps : dpLog' = Append(dpLog, << "end", op >>)
     THEN LET op == dpLog'[Len(dpLog')][2]
          IN  IF Command(op, dpKind, dpJob) # NoCommand /\ op \in dpFailedOps'
              THEN /\ dpLogFile' = Append(dpLogFile,
                        [command |-> Command(op, dpKind, dpJob), cwd |-> "root"])
                   /\ dpPc' = "Failed"
              ELSE dpLogFile' = dpLogFile
     ELSE dpLogFile' = dpLogFile]_vars

\* the trapeze command for staging failed under a log that held a block of an
\* earlier run: the old block is followed by the new one
C22_Witness ==
  /\ dpPc = "Failed"
  /\ dpFailedOps = {"trapeze"}
  /\ dpLogFile = << OldBlock, [command |-> << "pnpm trapeze:", "staging" >>, cwd |-> "root"] >>

\* the commands runBuildSteps is to invoke for the job, in order
ExpectedBuildCommands(job) ==
  (IF job.skipAsset THEN << >> ELSE << << "npm run assets:", job.env >> >>) \o
  << << "pnpm build:", job.env >>, << "pnpm trapeze:", job.env >>,
     << "npx cap sync", job.platform >> >>

\* C23: the commands runBuildSteps has invoked are the first ones of the list
\* `npm run assets:E` (unless skipAsset), `pnpm build:E`, `pnpm trapeze:E`,
\* `npx cap sync P`, in that order and nothing else; a command is started only
\* after the one before it has exited zero; and when runBuildSteps returns,
\* the whole list has been invoked.
C23_BuildStepsInOrder ==
  LET exp == ExpectedBuildCommands(dpJob)
  IN  /\ Len(dpCmds) <= Len(exp)
      /\ \A i \in DOMAIN dpCmds : dpCmds[i] = exp[i]
      /\ \A j \in DOMAIN dpLog :
           dpLog[j][1] = "begin" =>
             /\ j % 2 = 1
             /\ j > 1 => (dpLog[j - 1][1] = "end" /\ dpLog[j - 1][2] \notin dpFailedOps)
             /\ dpCmds[(j + 1) \div 2] = Command(dpLog[j][2], dpKind, dpJob)
      /\ Len(dpCmds) = Cardinality({j \in DOMAIN dpLog : dpLog[j][1] = "begin"})
      /\ dpPc = "package" => (dpCmds = exp /\ dpFailedOps = {})

\* runBuildSteps returned after its four commands for staging and android
C23_Witness ==
  /\ dpPc = "package"
  /\ dpJob.env = "staging" /\ ~dpJob.skipAsset
  /\ dpCmds = << << "npm run assets:", "staging" >>, << "pnpm build:", "staging" >>,
                  << "pnpm trapeze:", "staging" >>, << "npx cap sync", "android" >> >>
  /\ Len(dpLog) = 8

\* C24 as stated: in a run with the skipBuild flag set, OTA or native, none of
\* the build-step commands (asset generation, environment build, trapeze, cap
\* sync) is invoked, and a run that ends without failure has packaged and
\* uploaded.
C24_SkipBuildSkipsBuildSteps ==
  dpJob.skipBuild =>
    /\ \A i \in DOMAIN dpLog : dpLog[i][2] \notin {"assets", "build", "trapeze", "capSync"}
    /\ \A i \in DOMAIN dpCmds :
         dpCmds[i][1] \notin {"npm run assets:", "pnpm build:", "pnpm trapeze:", "npx cap sync"}
    /\ (dpPc = "Done" /\ dpFailedOps = {}) =>
         /\ \E i \in DOMAIN dpLog : dpLog[i] = << "end", "package" >>
         /\ UploadAttempted

\* the run has got past version sync
PastVersionSync ==
  /\ \E i \in DOMAIN dpLog : dpLog[i] = << "end", "syncVersion" >>
  /\ "syncVersion" \notin dpFailedOps

\* C25: in a deploy run for environment E that has got past version sync, from
\* then to its end: when a bump type was requested, the `npm version` command
\* was run, E's counter is exactly 1 above its value at the start (the default
\* 1 when there was no counters file) and every other counter is as at the
\* start; when none was requested, no `npm version` command is run and every
\* counter is as at the start.
C25_DeployBumpsTargetOnly ==
  PastVersionSync =>
    LET prior == SvReadCodes(svOrig)
        E == dpJob.env
    IN  /\ codesFile.exists
        /\ DOMAIN codesFile.codes = DOMAIN prior
        /\ \A e \in DOMAIN prior \ {E} : codesFile.codes[e] = prior[e]
        /\ IF dpJob.bump
           THEN /\ codesFile.codes[E] = prior[E] + 1
                /\ dpCmds[1] = << "npm version", "--no-git-tag-version" >>
           ELSE /\ codesFile.codes[E] = prior[E]
                /\ \A i \in DOMAIN dpCmds : dpCmds[i][1] # "npm version"

\* an OTA deploy for staging with a bump ended: staging went from 2 to 3, prod
\* stayed at 1
C25_Witness ==
  /\ dpKind = "ota" /\ dpJob.bump /\ dpJob.env = "staging"
  /\ dpPc = "Done"
  /\ svOrig.exists
  /\ svOrig.codes["staging"] = 2
  /\ codesFile.codes["staging"] = 3
  /\ codesFile.codes["prod"] = 1

\* C36: in a deploy run with a bump that has got past version sync and in
\* which an operation has failed since, the package version is the bumped one
\* and the environment's counter is 1 above its value at the start, as
\* version sync wrote them and returned them: nothing was put back, and a
\* bump applied to the counters file as it stands gives a counter 2 above the
\* value at the start.
C36_NoRollbackAfterFailure ==
  (dpJob.bump /\ PastVersionSync /\ dpFailedOps # {}) =>
    LET prior == SvReadCodes(svOrig)
        E == dpJob.env
    IN  /\ pkgVersion = 2
        /\ svLast.ret.version = 2
        /\ codesFile.exists
        /\ E \in DOMAIN codesFile.codes
        /\ codesFile.codes[E] = prior[E] + 1
        /\ svLast.ret.versionCode = [def |-> TRUE, n |-> prior[E] + 1]
        /\ SvBump(SvReadCodes(codesFile), E, TRUE)[E] = prior[E] + 2

\* an OTA deploy for staging with a patch bump failed at the packaging
\* command: the package version is 2 and staging's counter went from 2 to 3
C36_Witness ==
  /\ dpKind = "ota" /\ dpJob.bump /\ dpJob.env = "staging"
  /\ dpFailedOps = {"package"}
  /\ dpPc = "Failed"
  /\ pkgVersion = 2
  /\ svOrig.exists
  /\ svOrig.codes["staging"] = 2
  /\ codesFile.codes["staging"] = 3

(***************************************************************************)
(* Claims about syncVersion.                                               *)
(***************************************************************************)
\* the environment e has a counter when the call reads the file cf: the file
\* is absent (every known environment then starts at 1) or has an entry for e
HadCounter(cf, e) == IF cf.exists THEN e \in DOMAIN cf.codes ELSE e \in KnownEnvs

\* that counter
PriorCounter(cf, e) == IF cf.exists THEN cf.codes[e] ELSE 1

\* C4: a syncVersion(root, env, bump=true) that returns normally leaves env's
\* counter exactly 1 above its value before the call (1 when the file had no
\* entry for env), leaves every other environment's counter as it was, and
\* returns the new counter of env as versionCode.
C4_BumpAddsOneToEnvOnly ==
  (svLast.made /\ ~svLast.threw /\ svLast.bump) =>
    LET env == svLast.env
        b == svLast.before
    IN  /\ codesFile.exists
        /\ env \in DOMAIN codesFile.codes
        /\ codesFile.codes[env] = (IF HadCounter(b, env) THEN PriorCounter(b, env) ELSE 0) + 1
        /\ \A e \in (KnownEnvs \cup DOMAIN codesFile.codes) \ {env} :
             /\ HadCounter(b, e) <=> e \in DOMAIN codesFile.codes
             /\ HadCounter(b, e) => codesFile.codes[e] = PriorCounter(b, e)
        /\ svLast.ret.versionCode = [def |-> TRUE, n |-> codesFile.codes[env]]

\* a bump of staging from 2 to 3 with the other counters present
C4_Witness ==
  /\ svLast.made /\ ~svLast.threw /\ svLast.bump
  /\ svLast.env = "staging"
  /\ svLast.before.exists
  /\ DOMAIN svLast.before.codes = KnownEnvs
  /\ svLast.before.codes["staging"] = 2
  /\ codesFile.codes["staging"] = 3

\* C5: over sequential syncVersion calls, the persisted counter of every
\* environment never decreases (and is never dropped from the file).
C5_CountersNeverDecrease ==
  [][\A e \in KnownEnvs :
       (codesFile.exists /\ e \in DOMAIN codesFile.codes) =>
         /\ codesFile'.exists
         /\ e \in DOMAIN codesFile'.codes
         /\ codesFile'.codes[e] >= codesFile.codes[e]]_vars

\* a call has rewritten an existing counters file with a different map
C5_Witness ==
  /\ svLast.made /\ ~svLast.threw
  /\ svLast.before.exists
  /\ svLast.before.codes # codesFile.codes
  /\ codesFile.codes[svLast.env] = 3

\* both calls have read the counters file before either wrote it
BothReadFirst ==
  /\ Len(svLog) = 4
  /\ svLog[1][2] = "r"
  /\ svLog[2][2] = "r"

\* C6: when two interleaved calls both read the counters file before either
\* writes it, the file ends as the last writer's complete map: every counter is
\* its value at the start plus the last writer's own bump, so the first
\* writer's increment is lost, also when it targets a different environment.
C6_LastWriterWins ==
  ((\A p \in Procs : svPc[p] = "done") /\ BothReadFirst) =>
    LET last == svLog[4][1]
        start == SvReadCodes(svOrig)
    IN  /\ codesFile = CodesFileOf(svLoc[last].codes)
        /\ \A e \in DOMAIN start :
             codesFile.codes[e] =
               start[e] + (IF svLoc[last].bump /\ svLoc[last].env = e THEN 1 ELSE 0)
        /\ DOMAIN codesFile.codes =
             DOMAIN start \cup (IF svLoc[last].bump THEN {svLoc[last].env} ELSE {})

\* both calls bumped, for different environments, and read before either wrote
C6_Witness ==
  /\ \A p \in Procs : svPc[p] = "done" /\ svLoc[p].bump
  /\ BothReadFirst
  /\ svLoc[1].env # svLoc[2].env
  /\ svOrig.exists
  /\ DOMAIN svOrig.codes = KnownEnvs

C20_NoBumpTwiceSameCode ==
  ( /\ svPrev.made /\ ~svPrev.threw /\ ~svPrev.bump
    /\ svLast.made /\ ~svLast.threw /\ ~svLast.bump
    /\ svLast.env = svPrev.env ) =>
    /\ svLast.ret.versionCode = svPrev.ret.versionCode
    /\ svLast.ret.version = svPrev.ret.version

\* two calls without bump for staging, the first of which found no counters
\* file, both returned versionCode 1
C20_Witness ==
  /\ svPrev.made /\ ~svPrev.threw /\ ~svPrev.bump
  /\ svLast.made /\ ~svLast.threw /\ ~svLast.bump
  /\ svPrev.env = "staging" /\ svLast.env = "staging"
  /\ ~svPrev.before.exists
  /\ svLast.before = CodesFileOf(DefaultCodes)
  /\ svLast.ret.versionCode = [def |-> TRUE, n |-> 1]

\* C33 as stated: the versionCode returned by a syncVersion call that returns
\* normally is an integer of at least 1, whatever the counters file held, and
\* it is the value the environment's variable file then shows in every
\* assignment to VERSION_CODE and BUILD_NUMBER.
C33_VersionCodeAtLeastOne ==
  (svLast.made /\ ~svLast.threw) =>
    /\ svLast.ret.versionCode.def
    /\ svLast.ret.versionCode.n >= 1
    /\ \A i \in DOMAIN envFile[svLast.env].content :
         LET l == envFile[svLast.env].content[i]
         IN  (KeyEndsWith(l.key, "VERSION_CODE") \/ KeyEndsWith(l.key, "BUILD_NUMBER")) =>
               l.kind = "num" /\ l.n = svLast.ret.versionCode.n

\* the three variables syncVersion maintains
WellKnownVars == {"VITE_APP_VERSION", "VERSION_CODE", "BUILD_NUMBER"}

\* C35 as stated: syncVersion changes in an environment's variable file only
\* the values of the assignments to VITE_APP_VERSION, VERSION_CODE and
\* BUILD_NUMBER: no line is added or removed, every line assigning another
\* variable is as at the start, and a single call leaves the variable files
\* of the other environments as they were.
C35_OnlyWellKnownAssignmentsChange ==
  /\ \A e \in KnownEnvs :
       envFile[e].exists =>
         /\ Len(envFile[e].content) = Len(EnvTemplate(e))
         /\ \A i \in DOMAIN envFile[e].content :
              /\ envFile[e].content[i].key = EnvTemplate(e)[i].key
              /\ envFile[e].content[i].key \notin WellKnownVars =>
                   envFile[e].content[i] = EnvTemplate(e)[i]
  /\ (svLast.made /\ svPrev = NoCall) =>
       \A e \in KnownEnvs \ {svLast.env} :
         envFile[e].exists => envFile[e].content = EnvTemplate(e)

\* C34: after a syncVersion call that returns normally, with or without a
\* bump, the counters file exists and holds the counter map the call used
\* (the map it read, or the defaults, with the bump applied); when there was
\* no counters file before, it holds 1 for dev, staging and prod, except 2 for
\* a bumped environment.
C34_CountersAlwaysPersisted ==
  (svLast.made /\ ~svLast.threw) =>
    /\ codesFile.exists
    /\ codesFile.codes = SvBump(SvReadCodes(svLast.before), svLast.env, svLast.bump)
    /\ svLast.ret.versionCode = SvVersionCode(codesFile.codes, svLast.env)
    /\ ~svLast.before.exists =>
         /\ DOMAIN codesFile.codes = KnownEnvs
         /\ \A e \in KnownEnvs :
              codesFile.codes[e] = IF svLast.bump /\ e = svLast.env THEN 2 ELSE 1

\* a bumping call for dev found no counters file and left one holding 2 for
\* dev and 1 for the others
C34_Witness ==
  /\ svLast.made /\ ~svLast.threw /\ svLast.bump
  /\ svLast.env = "dev"
  /\ ~svLast.before.exists
  /\ codesFile = CodesFileOf([e \in KnownEnvs |-> IF e = "dev" THEN 2 ELSE 1])
  /\ svPrev = NoCall

\* C38: a syncVersion call fails exactly when the project manifest is missing
\* or the environment has no variable file, and a call that fails, with or
\* without a bump, writes nothing: the manifest, the counters file and every
\* environment variable file are after the call what they were before it.
C38_FailedSyncWritesNothing ==
  [][/\ svLast'.threw <=> ( \/ ~pkgExists
                            \/ svLast'.env \notin KnownEnvs
                            \/ ~envFile[svLast'.env].exists )
     /\ svLast'.threw =>
          /\ codesFile' = codesFile
          /\ envFile' = envFile
          /\ pkgExists' = pkgExists /\ pkgVersion' = pkgVersion
          /\ svLast'.before = codesFile]_vars

\* a bumping call for dev succeeded, then a bumping call for prod, whose
\* variable file is missing, failed: the counters file is the one the first
\* call left
C38_Witness ==
  /\ svPrev.made /\ ~svPrev.threw /\ svPrev.bump /\ svPrev.env = "dev"
  /\ svLast.made /\ svLast.threw /\ svLast.bump /\ svLast.env = "prod"
  /\ pkgExists /\ ~envFile["prod"].exists
  /\ codesFile = svLast.before
  /\ codesFile.exists /\ codesFile.codes["dev"] = 2
  /\ envFile["dev"].content # EnvTemplate("dev")

\* C21: a syncVersion call fails with an error, and writes nothing, whenever
\* the environment is not one of the known ones or the environment's variable
\* file does not exist.
C21_MissingEnvFileFatal ==
  (svLast.made /\ (svLast.env \notin KnownEnvs \/ ~envFile[svLast.env].exists)) =>
    /\ svLast.threw
    /\ codesFile = svLast.before
    /\ \A e \in KnownEnvs : ~envFile[e].exists => envFile[e].content = << >>

\* the manifest is there, the env file of prod is not, and a bumping call for
\* prod failed; the counters file is the one of the start
C21_Witness ==
  /\ svLast.made /\ svLast.bump /\ svLast.threw
  /\ ~svPrev.made
  /\ pkgExists
  /\ svLast.env = "prod"
  /\ ~envFile["prod"].exists
  /\ codesFile = CodesFileOf(DefaultCodes)

(***************************************************************************)
(* Claims about fetchProjectConfig.                                        *)
(***************************************************************************)
\* the call h received status 200 with a body
Got200WithBody(h) == h.resp.kind = "http" /\ h.resp.status = 200 /\ h.resp.body # ""

\* the call h sent its request and got another status, or no response at all
RequestFailed(h) ==
  \/ h.resp.kind = "transport"
  \/ h.resp.kind = "http" /\ h.resp.status # 200

C8_Original ==
  \A i \in DOMAIN fetchHist :
    Got200WithBody(fetchHist[i]) =>
      /\ fetchHist[i].ret = fetchHist[i].resp.body
      /\ fetchHist[i].cacheAfter = CacheOf(fetchHist[i].resp.body)

\* C8 amended: a call that receives status 200 with a body returns exactly
\* that payload; when the cache write succeeds the cache file then holds
\* exactly that payload, replacing what it held; when the write fails the
\* cache file is left as it was or unreadable.
C8_FetchedPayloadReturnedAndCached ==
  \A i \in DOMAIN fetchHist :
    Got200WithBody(fetchHist[i]) =>
      /\ fetchHist[i].ret = fetchHist[i].resp.body
      /\ fetchHist[i].wr = "written" => fetchHist[i].cacheAfter = CacheOf(fetchHist[i].resp.body)
      /\ fetchHist[i].wr # "written" =>
           fetchHist[i].cacheAfter \in {fetchHist[i].cacheBefore, CorruptCache}

\* a 200 with P2 replaced a cache that held P1
C8_Witness ==
  \E i \in DOMAIN fetchHist :
    /\ fetchHist[i].resp = HttpResponse(200, "P2")
    /\ fetchHist[i].cacheBefore = CacheOf("P1")
    /\ fetchHist[i].cacheAfter = CacheOf("P2")
    /\ fetchHist[i].ret = "P2"

\* C9: a call for which the effective config resolves no endpoint or no API
\* key sends no request, leaves the cache file alone and returns the cache's
\* content, or null when there is no cache file (or none that can be read).
C9_NoCredentialsNoNetwork ==
  \A i \in DOMAIN fetchHist :
    (~Truthy(fetchHist[i].endpoint) \/ ~Truthy(fetchHist[i].apiKey)) =>
      /\ fetchHist[i].netAfter = fetchHist[i].netBefore
      /\ fetchHist[i].resp = NoResponse
      /\ fetchHist[i].cacheAfter = fetchHist[i].cacheBefore
      /\ fetchHist[i].cacheBefore.state = "ok" => fetchHist[i].ret = fetchHist[i].cacheBefore.data
      /\ fetchHist[i].cacheBefore.state # "ok" => fetchHist[i].ret = "null"

\* an endpoint but no API key resolved, and the cached P1 was returned
C9_Witness ==
  \E i \in DOMAIN fetchHist :
    /\ Truthy(fetchHist[i].endpoint)
    /\ ~Truthy(fetchHist[i].apiKey)
    /\ fetchHist[i].cacheBefore = CacheOf("P1")
    /\ fetchHist[i].ret = "P1"
    /\ netCalls = 0

\* the largest element of a non-empty set of call numbers
LastOf(S) == CHOOSE i \in S : \A j \in S : j <= i

\* the cache file before the first call
InitialCache == IF fetchHist = << >> THEN cacheFile ELSE fetchHist[1].cacheBefore

\* C37 as stated: only a call that received status 200 with a non-empty body
\* changes the cache file, and the cache file always holds the payload of the
\* most recent such call, or its initial content when there was none.
C37_Original ==
  /\ \A i \in DOMAIN fetchHist :
       ~Got200WithBody(fetchHist[i]) => fetchHist[i].cacheAfter = fetchHist[i].cacheBefore
  /\ LET S == {i \in DOMAIN fetchHist : Got200WithBody(fetchHist[i])}
     IN  cacheFile = IF S = {} THEN InitialCache ELSE CacheOf(fetchHist[LastOf(S)].resp.body)

\* C37 amended: only a call that received status 200 with a non-empty body
\* changes the cache file: a call without credentials, with another status,
\* with a 200 and an empty body or with a transport failure leaves it as it
\* was, and so does a 200 whose cache write failed before the file was
\* opened. The cache file therefore holds what the most recent call whose
\* write reached the file left there (the payload when the write succeeded,
\* an unreadable file when it broke off), or its initial content.
C37_CacheWrittenOnlyOn200 ==
  /\ \A i \in DOMAIN fetchHist :
       /\ (~Got200WithBody(fetchHist[i]) \/ fetchHist[i].wr = "failed") =>
            fetchHist[i].cacheAfter = fetchHist[i].cacheBefore
       /\ i + 1 \in DOMAIN fetchHist => fetchHist[i + 1].cacheBefore = fetchHist[i].cacheAfter
  /\ LET S == {i \in DOMAIN fetchHist :
                 Got200WithBody(fetchHist[i]) /\ fetchHist[i].wr \in {"written", "truncated"}}
     IN  cacheFile = IF S = {} THEN InitialCache
                     ELSE IF fetchHist[LastOf(S)].wr = "written"
                     THEN CacheOf(fetchHist[LastOf(S)].resp.body)
                     ELSE CorruptCache

\* a 200 with P2 was cached, a 200 with P1 could not be written and a 500
\* followed: the cache file holds P2
C37_Witness ==
  /\ Len(fetchHist) = 3
  /\ fetchHist[1].resp = HttpResponse(200, "P2") /\ fetchHist[1].wr = "written"
  /\ fetchHist[2].resp = HttpResponse(200, "P1") /\ fetchHist[2].wr = "failed"
  /\ fetchHist[3].resp = HttpResponse(500, "P1")
  /\ cacheFile = CacheOf("P2")

\* C30: a call that receives status 200 with a body and whose cache write
\* fails ends by returning the fetched payload: the failure of the write
\* neither raises out of the call nor turns the result into the cache's
\* content.
C30_WriteFailureStillReturnsPayload ==
  \A i \in DOMAIN fetchHist :
    (Got200WithBody(fetchHist[i]) /\ fetchHist[i].wr \in {"failed", "truncated"}) =>
      fetchHist[i].ret = fetchHist[i].resp.body

\* a 200 with P2 whose write failed over a cache holding P1: P2 was returned
\* and the cache still holds P1
C30_Witness ==
  \E i \in DOMAIN fetchHist :
    /\ fetchHist[i].resp = HttpResponse(200, "P2")
    /\ fetchHist[i].wr = "failed"
    /\ fetchHist[i].cacheBefore = CacheOf("P1")
    /\ fetchHist[i].cacheAfter = CacheOf("P1")
    /\ fetchHist[i].ret = "P2"

(***************************************************************************)
(* Claims about loadConfig.                                                *)
(***************************************************************************)
\* C10: for every key present in the explicit overrides, the resolved config
\* maps that key to the override's value, whatever the two config files hold.
C10_OverrideWins ==
  cfgLast.made =>
    \A k \in DOMAIN cfgLast.flags :
      /\ k \in DOMAIN cfgLast.result
      /\ cfgLast.result[k] = cfgLast.flags[k]

\* the override of endpoint differs from the project file's value and the
\* global file is unparsable
C10_Witness ==
  /\ cfgLast.made
  /\ "endpoint" \in DOMAIN cfgLast.flags
  /\ globalCfg.state = "corrupt"
  /\ projectCfg.state = "ok"
  /\ "endpoint" \in DOMAIN projectCfg.map
  /\ projectCfg.map["endpoint"] # cfgLast.flags["endpoint"]
  /\ cfgLast.result["endpoint"] = cfgLast.flags["endpoint"]

\* C11: a key absent from the explicit overrides resolves to the project
\* file's whole value when the project file defines it, otherwise to the
\* global file's whole value when the global file defines it, otherwise the
\* key is absent from the result; a nested object is taken whole from one
\* layer, never merged field by field.
C11_MissingKeysInheritedWhole ==
  (cfgLast.made /\ ~cfgLast.threw) =>
    \A k \in CfgKeys \ DOMAIN cfgLast.flags :
      IF projectCfg.state = "ok" /\ k \in DOMAIN projectCfg.map
      THEN k \in DOMAIN cfgLast.result /\ cfgLast.result[k] = projectCfg.map[k]
      ELSE IF globalCfg.state = "ok" /\ k \in DOMAIN globalCfg.map
      THEN k \in DOMAIN cfgLast.result /\ cfgLast.result[k] = globalCfg.map[k]
      ELSE k \notin DOMAIN cfgLast.result

\* both files define environments as nested objects with different fields, no
\* override names it, and the result holds the project file's object
C11_Witness ==
  /\ cfgLast.made
  /\ "environments" \notin DOMAIN cfgLast.flags
  /\ globalCfg.state = "ok" /\ projectCfg.state = "ok"
  /\ "environments" \in DOMAIN globalCfg.map \cap DOMAIN projectCfg.map
  /\ globalCfg.map["environments"] = ObjVal({<<"prod", "stable">>, <<"dev", "nightly">>})
  /\ projectCfg.map["environments"] = ObjVal({<<"dev", "beta">>})
  /\ cfgLast.result["environments"] = ObjVal({<<"dev", "beta">>})
  /\ "endpoint" \notin DOMAIN cfgLast.flags
  /\ "endpoint" \in DOMAIN globalCfg.map \ DOMAIN projectCfg.map
  /\ cfgLast.result["endpoint"] = globalCfg.map["endpoint"]

\* the file f with an unparsable content taken for an absent file
AsAbsent(f) == IF f.state = "corrupt" THEN NoCfgFile ELSE f

\* C12: loadConfig does not raise when the global or the project config file
\* is absent or unparsable, and its result with an unparsable file is its
\* result with that file absent.
C12_CorruptFileAsAbsent ==
  (cfgLast.made /\ {globalCfg.state, projectCfg.state} \cap {"absent", "corrupt"} # {}) =>
    /\ ~cfgLast.threw
    /\ cfgLast.result = LoadConfig(AsAbsent(globalCfg), AsAbsent(projectCfg), cfgLast.flags)
    /\ projectCfg.state # "ok" =>
         \A k \in DOMAIN cfgLast.result \ DOMAIN cfgLast.flags :
           globalCfg.state = "ok" /\ k \in DOMAIN globalCfg.map /\ cfgLast.result[k] = globalCfg.map[k]

\* the project file is unparsable, the global file holds an endpoint, and the
\* call returned the global file's endpoint
C12_Witness ==
  /\ cfgLast.made /\ ~cfgLast.threw
  /\ projectCfg.state = "corrupt"
  /\ globalCfg.state = "ok"
  /\ "endpoint" \in DOMAIN globalCfg.map
  /\ "endpoint" \notin DOMAIN cfgLast.flags
  /\ cfgLast.result["endpoint"] = globalCfg.map["endpoint"]

(***************************************************************************)
(* Claims about setGlobalConfig and setProjectConfig.                      *)
(***************************************************************************)
\* the file a call wrote to, before and after, and the file it did not
SetTargetBefore == IF setLast.fn = "setGlobalConfig" THEN setLast.globalBefore ELSE setLast.projectBefore
SetTargetAfter == IF setLast.fn = "setGlobalConfig" THEN globalCfg ELSE projectCfg
SetOtherBefore == IF setLast.fn = "setGlobalConfig" THEN setLast.projectBefore ELSE setLast.globalBefore
SetOtherAfter == IF setLast.fn = "setGlobalConfig" THEN projectCfg ELSE globalCfg

\* C29: after setGlobalConfig(key, value) or setProjectConfig(key, value) on
\* a target file that was not unparsable, every other key of the target file
\* is present with its prior value and no other key appeared, the given key
\* holds the given value (it is absent when the value is undefined), and the
\* other config file is as it was.
C29_SetTouchesOneKey ==
  (setLast.fn # "none" /\ SetTargetBefore.state # "corrupt") =>
    /\ SetTargetAfter.state = "ok"
    /\ DOMAIN SetTargetAfter.map \ {setLast.key} = DOMAIN SetTargetBefore.map \ {setLast.key}
    /\ \A k \in DOMAIN SetTargetBefore.map \ {setLast.key} :
         SetTargetAfter.map[k] = SetTargetBefore.map[k]
    /\ IF setLast.value = Undefined
       THEN setLast.key \notin DOMAIN SetTargetAfter.map
       ELSE /\ setLast.key \in DOMAIN SetTargetAfter.map
            /\ SetTargetAfter.map[setLast.key] = setLast.value
    /\ SetOtherAfter = SetOtherBefore

\* the project file held endpoint and environments, the global file was
\* unparsable, and setProjectConfig changed the endpoint
C29_Witness ==
  /\ setLast.fn = "setProjectConfig"
  /\ setLast.key = "endpoint"
  /\ setLast.value = StrVal("u")
  /\ setLast.projectBefore.state = "ok"
  /\ DOMAIN setLast.projectBefore.map = {"endpoint", "environments"}
  /\ setLast.projectBefore.map["endpoint"] = StrVal("")
  /\ setLast.globalBefore.state = "corrupt"
  /\ globalCfg.state = "corrupt"
  /\ projectCfg.map["endpoint"] = StrVal("u")
  /\ projectCfg.map["environments"] = setLast.projectBefore.map["environments"]

\* both interleaved setters read before either wrote
BothSettersReadFirst ==
  /\ Len(scLog) = 4
  /\ scLog[1][2] = "r" /\ scLog[2][2] = "r"

\* C31: when two calls of the same setter for different keys both read the
\* file before either writes it, the file ends as the file at the start with
\* the last writer's key change alone: the first writer's key is as it was at
\* the start, and the other config file is untouched.
C31_LostUpdate ==
  ( /\ \A p \in SetProcs : scPc[p] = "done"
    /\ BothSettersReadFirst
    /\ scLoc[1].fn = scLoc[2].fn
    /\ scLoc[1].key # scLoc[2].key ) =>
    LET last == scLog[4][1]
        first == scLog[3][1]
        start == ReadJsonFile(SetTarget(scLoc[last].fn, scOrig[1], scOrig[2]))
        end == SetTarget(scLoc[last].fn, globalCfg, projectCfg)
    IN  /\ end = CfgFileOf(AssignKey(start, scLoc[last].key, scLoc[last].value))
        /\ scLoc[first].key \in DOMAIN end.map <=> scLoc[first].key \in DOMAIN start
        /\ scLoc[first].key \in DOMAIN start =>
             end.map[scLoc[first].key] = start[scLoc[first].key]
        /\ SetTarget(scLoc[last].fn, projectCfg, globalCfg) =
             SetTarget(scLoc[last].fn, scOrig[2], scOrig[1])

\* two setProjectConfig calls, for apiKey then environments, both read an
\* empty project file first: the file ends without the first writer's apiKey
C31_Witness ==
  /\ \A p \in SetProcs : scPc[p] = "done" /\ scLoc[p].fn = "setProjectConfig"
  /\ BothSettersReadFirst
  /\ scOrig[2] = CfgFileOf(EmptyObj)
  /\ scLoc[scLog[3][1]].key = "apiKey"
  /\ scLoc[scLog[3][1]].value = StrVal("u")
  /\ scLoc[scLog[4][1]].key = "environments"
  /\ scLoc[scLog[4][1]].value # Undefined
  /\ DOMAIN projectCfg.map = {"environments"}

\* C40: setGlobalConfig(key, value) and setProjectConfig(key, value) on a
\* target file that holds unparsable JSON do not raise: the file becomes a
\* parsable mapping that holds the given key with the given value and nothing
\* else (nothing at all when the value is undefined), whatever the file held,
\* and the other config file is as it was.
C40_CorruptTargetReplaced ==
  (setLast.fn # "none" /\ SetTargetBefore.state = "corrupt") =>
    /\ ~setLast.threw
    /\ SetTargetAfter.state = "ok"
    /\ DOMAIN SetTargetAfter.map \subseteq {setLast.key}
    /\ setLast.value # Undefined =>
         /\ DOMAIN SetTargetAfter.map = {setLast.key}
         /\ SetTargetAfter.map[setLast.key] = setLast.value
    /\ SetOtherAfter = SetOtherBefore

\* setGlobalConfig of apiKey on an unparsable global file, beside a project
\* file holding an endpoint: the global file holds the apiKey alone
C40_Witness ==
  /\ setLast.fn = "setGlobalConfig"
  /\ setLast.key = "apiKey" /\ setLast.value = StrVal("u")
  /\ setLast.globalBefore = CorruptCfgFile
  /\ globalCfg = CfgFileOf([k \in {"apiKey"} |-> StrVal("u")])
  /\ projectCfg.state = "ok"
  /\ "endpoint" \in DOMAIN projectCfg.map

(***************************************************************************)
(* Claims about findLatestZip and findApk.                                 *)
(***************************************************************************)
\* C26 as stated: findApk and findLatestZip, called for a directory that does
\* not exist, return null and do not raise.
C26_MissingDirectoryGivesNull ==
  (fdLast.fn # "none" /\ ~fdDir.exists) => (~fdLast.threw /\ fdLast.idx = 0)

\* the entries directly inside the scanned directory whose name ends in .zip
TopZips == {i \in DOMAIN fdDir.entries :
              fdDir.entries[i].where = "top" /\ fdDir.entries[i].ext = "zip"}

\* C27: findLatestZip on an existing directory returns an entry directly
\* inside it whose name ends in .zip and than which no other such entry is
\* strictly newer, and returns null when there is no such entry; an entry of a
\* subdirectory is never returned.
C27_LatestZipChosen ==
  (fdLast.fn = "findLatestZip" /\ fdDir.exists) =>
    /\ ~fdLast.threw
    /\ TopZips = {} <=> fdLast.idx = 0
    /\ fdLast.idx # 0 =>
         /\ fdLast.idx \in TopZips
         /\ fdDir.entries[fdLast.idx].where # "sub"
         /\ \A j \in TopZips : fdDir.entries[j].mtime <= fdDir.entries[fdLast.idx].mtime

\* the older archive is listed first and the newer one is returned
C27_Witness ==
  /\ fdLast.fn = "findLatestZip"
  /\ fdDir.exists
  /\ fdDir.entries = << Entry("zip", "top", FALSE, 1), Entry("zip", "top", FALSE, 2) >>
  /\ fdLast.idx = 2

\* the entries under the variant's output directory whose path ends in .apk
\* and does not contain 'androidTest'
VariantApks == {i \in DOMAIN fdDir.entries :
                  /\ fdDir.entries[i].where \in {"top", "sub"}
                  /\ fdDir.entries[i].ext = "apk"
                  /\ ~fdDir.entries[i].test}

\* C28: findApk returns only an entry under the variant's output directory
\* whose path ends in .apk and does not contain 'androidTest', and returns
\* null exactly when there is no such entry (or no such directory).
C28_ApkChosen ==
  fdLast.fn = "findApk" =>
    /\ ~fdLast.threw
    /\ fdLast.idx # 0 => fdLast.idx \in VariantApks
    /\ fdLast.idx = 0 <=> (~fdDir.exists \/ VariantApks = {})

\* a test artifact is listed first and the application's apk, in a
\* subdirectory, is returned
C28_Witness ==
  /\ fdLast.fn = "findApk"
  /\ fdDir.exists
  /\ fdDir.entries = << Entry("apk", "top", TRUE, 2), Entry("apk", "sub", FALSE, 1) >>
  /\ fdLast.idx = 2

====
